---- MODULE Spec2Model ----
(***************************************************************************)
(* RFP Radar v8.3 (src/rfp_radar/rfp_radar_v83.py): the bid scorer         *)
(* calculate_score, the second-stage adjustment apply_gpt_evaluation and   *)
(* the rule tables they read.                                              *)
(*                                                                         *)
(* Representation.  A Python str is the tuple of its Unicode code points   *)
(* (the Hangul syllable U+C6B4 is 50868, "A" is 65, " " is 32), so that    *)
(* `in`, replace, strip, slicing and parsing are computed character by     *)
(* character.  A score is an integer number of tenths of a point, because  *)
(* the tables hold the half-point value 58.5 (585); the clamp [0, 100] is  *)
(* [0, 1000] and the grade thresholds 80/65/55 are 800/650/550.            *)
(***************************************************************************)
EXTENDS Integers, Sequences, FiniteSets, TLC

(***************************************************************************)
(* State.                                                                  *)
(*   now            the calendar date datetime.now().date() returns        *)
(*   SITES_DB       the sites of sites_db.json (line 158)                  *)
(*   WKMG_AGENCIES  the partner list built from it at import (line 348)    *)
(*   CONFIG         the settings read: use_gpt, openai_api_key (whether    *)
(*                  one is set) and gpt_threshold (lines 76-77, 157)       *)
(*   item           the raw listing in hand                                *)
(*   score          the dict calculate_score returned for it, as           *)
(*                  apply_gpt_evaluation leaves it                         *)
(*   pc             idle, fetched (a listing is in hand), scored,          *)
(*                  evaluated, raised (calculate_score raised) or crashed  *)
(*                  (apply_gpt_evaluation raised)                          *)
(*   first          an earlier call of calculate_score kept for            *)
(*                  comparison: its listing, date and result               *)
(*   g2b_items      what fetch_koneps returned (line 864)                   *)
(*   direct_items   what crawl_direct_sites returned (line 867)             *)
(*   all_items      g2b_items + direct_items (line 870)                     *)
(*   unique         the list fetch_all_bids returns (line 889)              *)
(*   stage          start, or returned once fetch_all_bids has returned;    *)
(*                  in a run of main: scoring, scored, evaluated, listed,   *)
(*                  or empty, raised, crashed when main ended early         *)
(*   scored_items   main's list scored (lines 1241, 1265, 1285)             *)
(*   recommend      main's priority list (line 1318)                        *)
(*   quick_win      main's quick-win list (line 1320)                       *)
(*   candidates     main's candidates list (line 1304)                      *)
(*   page           fetch_koneps: the page to request next (line 804)       *)
(*   total_count    fetch_koneps: totalCount of the first page (line 821)   *)
(*   koneps_items   fetch_koneps: the list items (line 799)                 *)
(*   requests       fetch_koneps: the requests sent so far                  *)
(*   loop           fetch_koneps: start, running, or how the loop ended:    *)
(*                  exhausted (page > max_pages), empty_page, complete      *)
(*                  (totalCount reached), http_error, exception             *)
(*   service_key    download_g2b_files: the service key of line 190         *)
(*   tried          download_g2b_files: the sources tried so far, in order, *)
(*                  each with the files it yielded                          *)
(*   downloaded     download_g2b_files: the list it returned                *)
(*   call           download_g2b_files: start, running, or returned         *)
(***************************************************************************)
VARIABLES now, SITES_DB, WKMG_AGENCIES, CONFIG, item, score, pc, first,
          g2b_items, direct_items, all_items, unique, stage,
          scored_items, recommend, quick_win, candidates,
          page, total_count, koneps_items, requests, loop,
          service_key, tried, downloaded, call

\* The variables of fetch_all_bids.
batch == <<g2b_items, direct_items, all_items, unique, stage>>

\* The variables of main's lists.
run == <<scored_items, recommend, quick_win, candidates>>

\* The variables of fetch_koneps.
koneps == <<page, total_count, koneps_items, requests, loop>>

\* The variables of download_g2b_files.
spd == <<service_key, tried, downloaded, call>>

vars == <<now, SITES_DB, WKMG_AGENCIES, CONFIG, item, score, pc, first, batch, run, koneps, spd>>

\* No run of main, fetch_koneps or download_g2b_files has begun.
Idle ==
  /\ scored_items = <<>>
  /\ recommend = <<>>
  /\ quick_win = <<>>
  /\ candidates = <<>>
  /\ page = 1
  /\ total_count = 0
  /\ koneps_items = <<>>
  /\ requests = 0
  /\ loop = "start"
  /\ service_key = <<>>
  /\ tried = <<>>
  /\ downloaded = <<>>
  /\ call = "start"

(***************************************************************************)
(* Python string primitives.                                               *)
(***************************************************************************)

\* `k in s` for two strings: k occurs in s as a contiguous substring, that is,
\* from some position where its first character stands.
IsSubstr(k, s) ==
  \/ k = <<>>
  \/ \E i \in {p \in 1..(Len(s) - Len(k) + 1) : s[p] = k[1]} :
       \A j \in 2..Len(k) : s[i + j - 1] = k[j]

\* s.replace(c, '') for a one-character c.
RemoveChar(s, c) == SelectSeq(s, LAMBDA x : x # c)

\* str.isspace() of one character: the code points str.strip() removes.
IsSpace(c) ==
  \/ c \in 9..13
  \/ c \in 28..32
  \/ c \in {133, 160, 5760, 8232, 8233, 8239, 8287, 12288}
  \/ c \in 8192..8202

\* s.strip(): leading and trailing whitespace removed, interior kept.
Strip(s) ==
  LET idx == {i \in 1..Len(s) : ~IsSpace(s[i])}
  IN  IF idx = {} THEN <<>>
      ELSE LET lo == CHOOSE i \in idx : \A j \in idx : i <= j
               hi == CHOOSE i \in idx : \A j \in idx : j <= i
           IN  SubSeq(s, lo, hi)

\* s.replace(sub, ''): every non-overlapping occurrence of sub, scanning from the
\* left, removed.
RECURSIVE RemoveAll(_, _)
RemoveAll(s, sub) ==
  IF Len(sub) = 0 \/ Len(s) < Len(sub) THEN s
  ELSE IF SubSeq(s, 1, Len(sub)) = sub
       THEN RemoveAll(SubSeq(s, Len(sub) + 1, Len(s)), sub)
       ELSE <<s[1]>> \o RemoveAll(Tail(s), sub)

\* s[:n]
Prefix(s, n) == SubSeq(s, 1, IF Len(s) < n THEN Len(s) ELSE n)

(***************************************************************************)
(* Rule tables.                                                            *)
(***************************************************************************)

\* MIN_BUDGET (line 163, set again at line 296) and PRIORITY_BUDGET (line 164), in won.
MIN_BUDGET == 30000000
PRIORITY_BUDGET == 50000000

\* AI_BONUS_SCORE (line 280), in tenths of a point.
AI_BONUS_SCORE == 50

\* EXCLUSIONS (rfp_radar_v83.py lines 171-209), in list order.
EXCLUSIONS ==
  <<
    <<44368,50977,50668,54665>>, <<49688,54617,50668,54665>>, <<52404,54744,54617,49845>>,
    <<54644,50808,50672,49688>>, <<50689,50612,52404,54744>>, <<50612,54617,50672,49688>>,
    <<44544,47196,48268,47532,45908>>, <<50689,50612,52896,54532>>, <<54644,50808,52896,54532>>,
    <<47532,45908,49901,54532,47196,44536,47016>>, <<44544,47196,52972,47532,45908,49901>>,
    <<49688,47144,54876,46041>>, <<49688,47144,50896>>, <<52397,49548,45380,49688,47144>>,
    <<51064,51116,50577,49457>>, <<51064,47141,50577,49457>>, <<44368,50977,54984,47144>>,
    <<50669,47049,44053,54868>>, <<50669,47049,44053,54868,44368,50977>>,
    <<44368,50977,50689,49345>>, <<44368,50977,54532,47196,44536,47016>>,
    <<50672,49688,54532,47196,44536,47016>>, <<51032,47308,44592,44592>>, <<51032,50557,54408>>,
    <<51032,50557,51221,48372>>, <<54764,49828,52992,50612>>, <<51076,49345>>, <<51652,47308>>,
    <<52376,48169>>, <<49884,49828,53596,44396,52629>>, <<49884,49828,53596,44060,48156>>,
    <<54540,47019,54268,44396,52629>>, <<54540,47019,54268,44060,48156>>, <<50545,44060,48156>>,
    <<50937,44060,48156>>, <<68,66,44396,52629>>, <<51221,48372,54868,49324,50629>>,
    <<53364,46972,50864,46300,44396,52629>>, <<83,87,44060,48156>>,
    <<50500,53412,53581,52376,44060,48156>>, <<44060,48169,54805,50500,53412,53581,52376>>,
    <<44277,53685,50500,53412,53581,52376>>, <<49828,54252,52768,49328,50629>>,
    <<52404,50977,51652,55141>>, <<49828,54252,52768,53364,47101>>, <<52404,50977,49884,49444>>,
    <<49828,54252,52768,47560,52992,54021>>, <<49884,49444,44396,52629>>,
    <<44032,44277,50976,53685,49884,49444>>, <<49444,44228,50857,50669>>,
    <<44592,48376,49444,44228>>, <<49892,49884,49444,44228>>, <<44396,52629,49324,50629>>,
    <<44148,47549,49324,50629>>, <<46020,49884,51116,49373>>, <<46020,49884,44228,54925>>,
    <<44148,52629,49444,44228>>, <<51312,44221,44277,49324>>, <<44592,54925,50868,50689>>,
    <<44592,54925,32,48143,32,50868,50689>>, <<50868,50689,45824,54665>>,
    <<51204,49884,50868,50689>>, <<51204,49884,45824,54665>>, <<48149,46988,54924,50868,50689>>,
    <<54168,50612,50868,50689>>, <<54872,50689,51452,44036>>, <<48169,47928,51452,44036>>,
    <<44060,47561,49885>>, <<54224,47561,49885>>, <<44592,45392,49885>>,
    <<52629,51228,50868,50689>>, <<44277,50672,50868,50689>>, <<50868,49569,53685,44288>>,
    <<53685,44288,45824,54665>>, <<49368,54540,50868,49569>>, <<47932,47448,45824,54665>>,
    <<48176,49569,45824,54665>>, <<52285,44256,44288,47532>>, <<51077,52636,44256>>,
    <<54616,50669>>, <<51116,44256,44288,47532>>, <<54252,51109,45824,54665>>,
    <<50504,51204,52968,49444,54021>>, <<50504,51204,44288,47532,52968,49444,54021>>,
    <<80,83,77>>, <<44277,51221,50504,51204>>, <<50504,51204,47588,45684,50620>>,
    <<49328,50629,50504,51204>>, <<51116,45212,50504,51204>>, <<49548,48169,50504,51204>>,
    <<50504,51204,51652,45800>>, <<50504,51204,51216,44160>>, <<49548,48169,51216,44160>>,
    <<44508,51228,44592,44288>>, <<44508,51228,44592,44288,51109>>, <<44508,51228,54801,51032>>,
    <<44508,51228,45824,51025>>, <<48708,49345,45824,51025>>,
    <<54801,47141,49468,53552,50868,50689>>, <<54801,47141,49468,53552>>,
    <<54801,51032,52404,50868,50689>>, <<54801,51032,52404>>, <<48169,49569,53080,53584,52768>>,
    <<48169,49569,52292,45328>>, <<48169,49569,51228,51089>>, <<73,80,84,86>>, <<79,84,84>>,
    <<49828,53944,47532,48141,49436,48708,49828>>, <<45796,53328,47704,53552,47532>>,
    <<54532,47196,44536,47016,51228,51089>>, <<51068,53552,54785,49888>>,
    <<45432,49324,44288,44228>>, <<45432,47924,44288,47532>>, <<49345,49373,52968,49444,54021>>,
    <<45432,46041,52968,49444,54021>>, <<51064,49324,44288,47532>>, <<44553,50668,44288,47532>>,
    <<52292,50857,45824,54665>>, <<54924,44228,44048,49324>>, <<49464,47924,45824,47532>>,
    <<48277,47456,51088,47928>>, <<44221,44592,46041,54693,51312,49324>>,
    <<53685,44228,51312,49324>>, <<49892,53468,51312,49324>>,
    <<47784,45768,53552,47553,51312,49324>>, <<49324,54980,47784,45768,53552,47553>>,
    <<47784,45768,53552,47553,50672,44396>>, <<47784,45768,53552,47553,50857,50669>>,
    <<51216,44160,50857,50669>>, <<44048,49884,50857,50669>>, <<44592,49696,48516,49437>>,
    <<44397,45236,50808,44592,49696,48516,49437>>, <<52397,49548,50857,50669>>,
    <<44221,48708,50857,50669>>, <<49884,49444,44288,47532>>, <<52397,49548>>, <<44221,48708>>,
    <<48120,54868>>, <<48169,48276>>, <<51452,52264,44288,47532>>, <<48372,50504,44288,47532>>,
    <<50976,51648,44288,47532>>, <<50976,51648,48372,49688>>, <<51221,48708,50857,50669>>,
    <<44288,52769,51109,48708>>, <<52769,51221,51109,48708>>, <<44228,52769,51109,48708>>,
    <<47932,54408,44396,47588>>, <<51109,48708,44396,47588>>, <<52264,47049,44396,47588>>,
    <<48708,54408,44396,47588>>, <<49688,52636,49345,45812,54924>>,
    <<49345,45812,54924,50868,50689>>, <<44305,44256,45824,54665,49324,49440,51221>>,
    <<54861,48372,45824,54665,49324,49440,51221>>,
    <<51333,54633,44305,44256,54861,48372,45824,54665,49324,49440,51221>>,
    <<44305,44256,54861,48372,45824,54665,49324>>, <<45824,54665,49324,49440,51221>>,
    <<53685,54617,48260,49828>>, <<51076,52264,50857,50669>>, <<48260,49828,51076,52264>>,
    <<51221,52293,54861,48372,52968,49444,54021,45824,54665>>,
    <<54861,48372,52968,49444,54021,45824,54665>>
  >>

\* CORE_DOMAINS (lines 214-273), in dict order; scores in tenths of a point
\* (partial 58.5 is 585).
CORE_DOMAINS ==
  <<
    [name |-> <<49,95,48652,47004,46300,51204,47029>>,
     keywords |-> <<
       <<48652,47004,46377>>, <<48652,47004,46300,44060,48156>>,
       <<48652,47004,46300,51204,47029>>, <<48652,47004,46300,52968,49444,54021>>,
       <<47532,48652,47004,46377>>, <<48652,47004,46300,47560,52992,54021>>,
       <<48652,47004,46300,52964,48036,45768,52992,51060,49496>>, <<54252,51648,49492,45789>>,
       <<52968,49481>>, <<45348,51060,48141>>, <<49836,47196,44148>>, <<66,73,44060,48156>>,
       <<67,73,44060,48156>>, <<50500,51060,45940,54000,54000>>,
       <<48652,47004,46300,50500,53412,53581,52376>>, <<65,73,48652,47004,46377>>,
       <<65,73,48652,47004,46300>>, <<65,73,44592,48152,48652,47004,46300>>,
       <<49373,49457,65,73,48652,47004,46300>>
     >>,
     max_score |-> 650, partial |-> 585, marginal |-> 520],
    [name |-> <<50,95,49345,54408,54868,51228,54408,44060,48156>>,
     keywords |-> <<
       <<49345,54408,54868>>, <<51228,54408,44060,48156>>, <<49345,54408,44060,48156>>,
       <<51228,54408,44592,54925>>, <<49345,54408,44592,54925>>, <<78,80,68>>,
       <<52968,49481,44060,48156>>, <<44221,51137,47141,51652,45800>>,
       <<86,97,108,117,101,45,85,112>>, <<48184,47448,50629>>, <<49884,51109,44592,54924>>,
       <<49888,49324,50629,48156,44404>>, <<49345,54408,44592,49696,49436>>,
       <<52968,49481,48372,46300>>, <<85,83,80>>, <<54056,53412,51648,46356,51088,51064>>,
       <<51228,54408,46356,51088,51064>>, <<46356,51088,51064,44060,48156>>,
       <<65,73,49345,54408,54868>>, <<65,73,51228,54408,44060,48156>>,
       <<65,73,44592,48152,49345,54408>>
     >>,
     max_score |-> 650, partial |-> 585, marginal |-> 520],
    [name |-> <<51,95,50976,53685,54032,47196,44060,52377>>,
     keywords |-> <<
       <<54032,47196,44060,52377>>, <<54032,47196,54869,45824>>, <<54032,47196,51648,50896>>,
       <<54032,47196>>, <<50976,53685,52292,45328>>, <<50976,53685,51204,47029>>,
       <<50976,53685,51648,50896>>, <<51077,51216,51204,47029>>, <<51077,51216,51648,50896>>,
       <<50728,46972,51064,51077,51216>>, <<46972,51060,48652,52964,47672,49828>>,
       <<44592,54925,51204>>, <<49688,52636,51648,50896>>, <<49688,52636,47560,52992,54021>>,
       <<54644,50808,51652,52636,51648,50896>>, <<44544,47196,48268,47560,52992,54021>>,
       <<44544,47196,48268,48652,47004,46300>>, <<44544,47196,48268,51652,52636>>,
       <<48148,51060,50612,48156,44404>>, <<48148,51060,50612,47588,52845,51648,50896>>,
       <<65,73,49688,52636>>, <<65,73,50976,53685>>, <<65,73,54032,47196>>,
       <<65,73,52964,47672,49828>>, <<53356,47196,49828,48372,45908>>, <<50669,51649,44396>>,
       <<44544,47196,48268,51060,52964,47672,49828>>
     >>,
     max_score |-> 600, partial |-> 540, marginal |-> 480],
    [name |-> <<52,95,47560,52992,54021,52964,48036,45768,52992,51060,49496>>,
     keywords |-> <<
       <<47560,52992,54021,51204,47029>>, <<47560,52992,54021,44592,54925>>,
       <<47560,52992,54021,52968,49444,54021>>, <<53685,54633,47560,52992,54021>>,
       <<46356,51648,53560,47560,52992,54021>>, <<50728,46972,51064,47560,52992,54021>>,
       <<53080,53584,52768,47560,52992,54021>>, <<54861,48372,47560,52992,54021>>,
       <<47560,52992,54021,54861,48372>>, <<54861,48372,51204,47029>>,
       <<54861,48372,44592,54925>>, <<54861,48372,52896,54168,51064>>, <<80,82,51204,47029>>,
       <<80,82,44592,54925>>, <<52896,54168,51064>>, <<54532,47196,47784,49496>>, <<73,77,67>>,
       <<83,78,83,50868,50689>>, <<83,78,83,53080,53584,52768>>, <<83,78,83,47560,52992,54021>>,
       <<53080,53584,52768,44592,54925>>, <<53080,53584,52768,51204,47029>>,
       <<45572,47532,49548,53685,47581>>, <<49548,49500,48120,46356,50612>>,
       <<44305,44256,44592,54925>>, <<44305,44256,51204,47029>>, <<65,73,47560,52992,54021>>,
       <<65,73,54861,48372>>, <<65,73,53080,53584,52768>>, <<65,73,44305,44256>>,
       <<49373,49457,65,73,47560,52992,54021>>, <<49373,49457,65,73,53080,53584,52768>>,
       <<49373,49457,65,73,54876,50857>>, <<65,73,54876,50857,47560,52992,54021>>,
       <<65,73,54876,50857,54861,48372>>, <<65,73,54876,50857,53080,53584,52768>>,
       <<52311,48391,47560,52992,54021>>, <<65,73,52311,48391>>,
       <<45936,51060,53552,47560,52992,54021>>, <<54140,54252,47676,49828,47560,52992,54021>>,
       <<44536,47196,49828,47560,52992,54021>>
     >>,
     max_score |-> 650, partial |-> 585, marginal |-> 520]
  >>

\* AI_BONUS_KEYWORDS (lines 276-279).
AI_BONUS_KEYWORDS ==
  <<
    <<65,73,54876,50857>>, <<65,73,44592,48152>>, <<51064,44277,51648,45733>>,
    <<49373,49457,65,73>>, <<49373,49457,54805,65,73>>, <<67,104,97,116,71,80,84>>,
    <<71,80,84,54876,50857>>, <<65,73,51204,54872>>, <<46356,51648,53560,51204,54872>>,
    <<68,88>>
  >>

\* INDUSTRY_SCORES (lines 282-294), in dict order; scores in tenths.
INDUSTRY_SCORES ==
  <<
    [kw |-> <<45453,49885,54408>>, sc |-> 150], [kw |-> <<49885,54408>>, sc |-> 150],
    [kw |-> <<45453,49328,47932>>, sc |-> 150], [kw |-> <<54868,51109,54408>>, sc |-> 150],
    [kw |-> <<48624,54000>>, sc |-> 150],
    [kw |-> <<44148,44053,44592,45733,49885,54408>>, sc |-> 150],
    [kw |-> <<49548,49345,44277,51064>>, sc |-> 150],
    [kw |-> <<51473,49548,44592,50629>>, sc |-> 150],
    [kw |-> <<49548,44592,50629>>, sc |-> 150],
    [kw |-> <<49324,54924,51201,44592,50629>>, sc |-> 120],
    [kw |-> <<49548,49500,48292,52376>>, sc |-> 120],
    [kw |-> <<49324,54924,51201,44221,51228>>, sc |-> 120],
    [kw |-> <<51204,51088>>, sc |-> 120], [kw |-> <<49373,53468,47785,51109>>, sc |-> 120],
    [kw |-> <<51109,50528,51064,44592,50629>>, sc |-> 120],
    [kw |-> <<50668,49457,44592,50629>>, sc |-> 100],
    [kw |-> <<49324,54924,51201,50557,51088>>, sc |-> 100],
    [kw |-> <<44288,44305,44277,49324>>, sc |-> 100],
    [kw |-> <<54,52264,49328,50629>>, sc |-> 100],
    [kw |-> <<44277,44277,44592,44288>>, sc |-> 100], [kw |-> <<51221,48512>>, sc |-> 100],
    [kw |-> <<47785,51109>>, sc |-> 100], [kw |-> <<49688,49328,47932>>, sc |-> 100],
    [kw |-> <<52629,49328,47932>>, sc |-> 100],
    [kw |-> <<51648,50669,53945,49328,47932>>, sc |-> 80],
    [kw |-> <<53945,49328,54408>>, sc |-> 80], [kw |-> <<51648,50669,53945,49328>>, sc |-> 80],
    [kw |-> <<45453,52492>>, sc |-> 80], [kw |-> <<47196,52972,54392,46300>>, sc |-> 80],
    [kw |-> <<46321,49328,44288,44305>>, sc |-> 80],
    [kw |-> <<49373,53468,44288,44305>>, sc |-> 80],
    [kw |-> <<51648,50669,44288,44305>>, sc |-> 80],
    [kw |-> <<54801,46041,51312,54633>>, sc |-> 50],
    [kw |-> <<47560,51012,44592,50629>>, sc |-> 50], [kw |-> <<44288,44305>>, sc |-> 50],
    [kw |-> <<44592,53440>>, sc |-> 50], [kw |-> <<65,73,54876,50857>>, sc |-> 120],
    [kw |-> <<51064,44277,51648,45733>>, sc |-> 120],
    [kw |-> <<46356,51648,53560,51204,54872>>, sc |-> 100], [kw |-> <<68,88>>, sc |-> 100]
  >>

\* PENALTY_KEYWORDS (lines 298-311), in dict order; values in tenths.
PENALTY_KEYWORDS ==
  <<
    [kw |-> <<45824,54665,50857,50669>>, p |-> -150],
    [kw |-> <<50868,50689,50857,50669>>, p |-> -150],
    [kw |-> <<50868,50689,45824,54665,50857,50669>>, p |-> -150],
    [kw |-> <<50868,50689,48143,54876,49457,54868>>, p |-> -120],
    [kw |-> <<50868,50689,48143,44288,47532>>, p |-> -120],
    [kw |-> <<50868,50689,54876,49457,54868>>, p |-> -120],
    [kw |-> <<54665,49324,50868,50689>>, p |-> -120],
    [kw |-> <<54665,49324,45824,54665>>, p |-> -120],
    [kw |-> <<52292,45328,50868,50689>>, p |-> -100],
    [kw |-> <<44228,51221,50868,50689>>, p |-> -100],
    [kw |-> <<44228,51221,44288,47532>>, p |-> -100],
    [kw |-> <<53080,53584,52768,51228,51089,50868,50689>>, p |-> -100],
    [kw |-> <<53080,53584,52768,50868,50689>>, p |-> -100],
    [kw |-> <<49688,52636,44228,50557>>, p |-> -100],
    [kw |-> <<48148,51060,50612,47588,52845>>, p |-> -100],
    [kw |-> <<54644,50808,48148,51060,50612>>, p |-> -100],
    [kw |-> <<53945,54728,52636,50896>>, p |-> -80], [kw |-> <<53945,54728>>, p |-> -80],
    [kw |-> <<51064,51613,52712,46301>>, p |-> -80], [kw |-> <<75,67,51064,51613>>, p |-> -80],
    [kw |-> <<51649,51217,51077,51216>>, p |-> -60],
    [kw |-> <<51077,51216,44228,50557>>, p |-> -60], [kw |-> <<82,38,68>>, p |-> -40],
    [kw |-> <<44592,49696,44060,48156>>, p |-> -40],
    [kw |-> <<50672,44396,44060,48156>>, p |-> -40],
    [kw |-> <<49884,49444,44396,52629>>, p |-> -20],
    [kw |-> <<49444,48708,44396,52629>>, p |-> -20]
  >>

\* STRATEGIC_EXEMPTION_WORDS (line 456).
STRATEGIC_EXEMPTION_WORDS ==
  <<
    <<52968,49444,54021>>, <<51204,47029>>, <<44592,54925>>, <<51652,45800>>, <<48516,49437>>,
    <<49688,47549>>, <<47560,52992,54021>>
  >>

\* OPERATION_PENALTY_KEYWORDS (line 459).
OPERATION_PENALTY_KEYWORDS ==
  <<
    <<50868,50689,50857,50669>>, <<50868,50689,45824,54665,50857,50669>>,
    <<50868,50689,48143,54876,49457,54868>>, <<50868,50689,48143,44288,47532>>,
    <<50868,50689,54876,49457,54868>>
  >>

\* STRATEGY_WORDS (line 476).
STRATEGY_WORDS ==
  <<
    <<51204,47029>>, <<52968,49444,54021>>, <<51652,45800>>, <<48516,49437>>, <<49688,47549>>,
    <<49444,44228>>, <<52404,44228>>, <<47560,52992,54021>>
  >>

\* EXECUTION_WORDS (line 477).
EXECUTION_WORDS ==
  <<
    <<45824,54665>>, <<50868,50689>>, <<44288,47532>>, <<54876,49457,54868>>, <<50948,53441>>
  >>

\* alias_map (lines 328-341): each base name with its aliases, in dict order.
alias_map ==
  <<
    [base |-> <<97,84,32,54620,44397,45453,49688,49328,49885,54408,50976,53685,44277,49324>>,
     aliases |-> <<<<54620,44397,45453,49688,49328,49885,54408,50976,53685,44277,49324>>, <<45453,49688,49328,49885,54408,50976,53685,44277,49324>>, <<97,84>>>>],
    [base |-> <<54620,44397,49324,54924,51201,44592,50629,51652,55141,50896>>,
     aliases |-> <<<<49324,54924,51201,44592,50629,51652,55141,50896>>>>],
    [base |-> <<54620,44397,44288,44305,44277,49324>>,
     aliases |-> <<<<44288,44305,44277,49324>>>>],
    [base |-> <<54620,44397,46356,51088,51064,51652,55141,50896,40,75,73,68,80,41>>,
     aliases |-> <<<<46356,51088,51064,51652,55141,50896>>, <<75,73,68,80>>>>],
    [base |-> <<54620,44397,45453,50629,44592,49696,51652,55141,50896,40,75,79,65,84,41>>,
     aliases |-> <<<<45453,50629,44592,49696,51652,55141,50896>>, <<75,79,65,84>>>>],
    [base |-> <<54620,44397,53080,53584,52768,51652,55141,50896>>,
     aliases |-> <<<<53080,53584,52768,51652,55141,50896>>, <<75,79,67,67,65>>>>],
    [base |-> <<49548,49345,44277,51064,49884,51109,51652,55141,44277,45800>>,
     aliases |-> <<<<49548,51652,44277>>>>],
    [base |-> <<51473,49548,44592,50629,51652,55141,44277,45800>>,
     aliases |-> <<<<51473,51652,44277>>, <<51473,49548,48292,52376,44592,50629,51652,55141,44277,45800>>>>],
    [base |-> <<54868,49457,49884,52397>>,
     aliases |-> <<<<54868,49457,49884>>>>],
    [base |-> <<45453,52492,51652,55141,52397>>,
     aliases |-> <<<<45453,51652,52397>>>>],
    [base |-> <<45453,50629,44592,49696,49892,50857,54868,51116,45800,40,44396,32,70,65,67,84,41>>,
     aliases |-> <<<<70,65,67,84>>, <<45453,50629,44592,49696,49892,50857,54868,51116,45800>>>>],
    [base |-> <<51473,49548,44592,50629,50976,53685,49468,53552>>,
     aliases |-> <<<<50976,53685,49468,53552>>>>]
  >>

(***************************************************************************)
(* Values of a raw listing.  A field of the listing (JSON) is absent/null, *)
(* a number or a string: [t |-> "none" | "int" | "str", n |-> number,       *)
(* s |-> string].                                                          *)
(***************************************************************************)
NoneVal == [t |-> "none", n |-> 0, s |-> <<>>]
IntVal(k) == [t |-> "int", n |-> k, s |-> <<>>]
StrVal(x) == [t |-> "str", n |-> 0, s |-> x]
\* The floats json.loads reads from Infinity, -Infinity (or a literal past the
\* double range) and NaN.
InfVal(sign) == [t |-> "inf", n |-> sign, s |-> <<>>]
NanVal == [t |-> "nan", n |-> 0, s |-> <<>>]

\* Python truthiness of a field value: None, 0 and '' are false.
Truthy(v) ==
  \/ v.t = "int" /\ v.n # 0
  \/ v.t = "str" /\ v.s # <<>>

(***************************************************************************)
(* int(float(x)) (lines 369 and 1254).                                     *)
(***************************************************************************)

\* A decimal digit as float(), int() and strptime's \d read it: the ASCII digits
\* and the full-width digits U+FF10..U+FF19 (the other Unicode decimal digits are
\* read the same way and are not drawn by the inputs).
IsDigit(c) == c \in 48..57 \/ c \in 65296..65305
DigitVal(c) == IF c \in 48..57 THEN c - 48 ELSE c - 65296
AllDigits(s) == \A i \in 1..Len(s) : IsDigit(s[i])

\* Every budget the program compares lies below BudgetCap: a larger parsed value
\* is held as BudgetCap (the comparisons are with 0, 5000000, 10000000,
\* MIN_BUDGET, PRIORITY_BUDGET and 500000000 only).
BudgetCap == 2000000000

\* The value of a digit string, saturating at BudgetCap.
RECURSIVE DigitsValueFrom(_, _)
DigitsValueFrom(ds, acc) ==
  IF ds = <<>> THEN acc
  ELSE IF acc >= BudgetCap \div 10 THEN BudgetCap
  ELSE DigitsValueFrom(Tail(ds), acc * 10 + DigitVal(Head(ds)))

DigitsValue(ds) == DigitsValueFrom(ds, 0)

\* A small exponent value (saturating at 1000, beyond any float).
RECURSIVE ExpValueFrom(_, _)
ExpValueFrom(ds, acc) ==
  IF ds = <<>> THEN acc
  ELSE IF acc >= 1000 THEN 1000
  ELSE ExpValueFrom(Tail(ds), acc * 10 + DigitVal(Head(ds)))

\* str.lower() on the ASCII letters (the only cased letters the inputs draw).
LowerChar(c) == IF c \in 65..90 THEN c + 32 ELSE c
Lower(s) == [i \in 1..Len(s) |-> LowerChar(s[i])]

\* The index of the first character of s that lies in set cs, or 0.
FirstIndexIn(s, cs) ==
  LET idx == {i \in 1..Len(s) : s[i] \in cs}
  IN  IF idx = {} THEN 0 ELSE CHOOSE i \in idx : \A j \in idx : i <= j

\* A digit string with leading zeros removed.
RECURSIVE DropLeadingZeros(_)
DropLeadingZeros(ds) ==
  IF ds # <<>> /\ DigitVal(Head(ds)) = 0 THEN DropLeadingZeros(Tail(ds)) ELSE ds

\* float() and int() on a str.  The literal grammar is Python's: surrounding
\* whitespace, a sign, inf/infinity/nan in any case, or digits with an optional
\* fraction and exponent, single underscores allowed between digits.  Each step
\* yields [ok |-> FALSE, ...] when float() or int() raises (ValueError for a
\* malformed literal or nan, OverflowError for inf or a value beyond a float).

NotANumber == [ok |-> FALSE, v |-> 0]

\* inf, infinity and nan: float() reads them, int() raises on them.
IsSpecialFloat(body) ==
  Lower(body) \in {<<105,110,102>>, <<105,110,102,105,110,105,116,121>>, <<110,97,110>>}

\* Every underscore stands between two digits.
UnderscoresOk(body) ==
  \A i \in 1..Len(body) :
    body[i] = 95 =>
      /\ i > 1 /\ i < Len(body)
      /\ IsDigit(body[i - 1]) /\ IsDigit(body[i + 1])

\* The mantissa "digits[.digits]" with at least one digit: its integer and
\* fraction digits.
MantissaOf(mant) ==
  LET dot == FirstIndexIn(mant, {46})
      ip == IF dot = 0 THEN mant ELSE SubSeq(mant, 1, dot - 1)
      fp == IF dot = 0 THEN <<>> ELSE SubSeq(mant, dot + 1, Len(mant))
  IN  [ok |-> AllDigits(ip) /\ AllDigits(fp) /\ Len(ip) + Len(fp) >= 1, ip |-> ip, fp |-> fp]

\* The exponent text after "e": a sign and at least one digit.
ExponentOf(expo) ==
  LET signed == expo # <<>> /\ expo[1] \in {43, 45}
      digits == IF signed THEN Tail(expo) ELSE expo
      mag == ExpValueFrom(digits, 0)
  IN  IF digits = <<>> \/ ~AllDigits(digits) THEN [ok |-> FALSE, e |-> 0]
      ELSE [ok |-> TRUE, e |-> IF expo[1] = 45 THEN 0 - mag ELSE mag]

\* int() of the float with digits `all`, the decimal point after the first
\* `point` of them: the integer part, truncated toward zero, exact for at most
\* 15 significant digits; OverflowError beyond 309 integer digits.
Truncated(all, point, neg) ==
  LET sig == DropLeadingZeros(all)
      intDigits == IF sig = <<>> THEN 0 ELSE point - (Len(all) - Len(sig))
      mag == IF intDigits <= 0 THEN 0
             ELSE IF intDigits > 10 THEN BudgetCap
             ELSE IF point <= Len(all) THEN DigitsValue(SubSeq(all, 1, point))
             ELSE DigitsValue(all \o [i \in 1..(point - Len(all)) |-> 48])
  IN  IF intDigits > 309 THEN NotANumber
      ELSE [ok |-> TRUE, v |-> IF neg THEN 0 - mag ELSE mag]

\* The literal without sign and underscores.
UnsignedLiteral(lit, neg) ==
  LET ePos == FirstIndexIn(lit, {69, 101})
      m == MantissaOf(IF ePos = 0 THEN lit ELSE SubSeq(lit, 1, ePos - 1))
      x == IF ePos = 0 THEN [ok |-> TRUE, e |-> 0]
           ELSE ExponentOf(SubSeq(lit, ePos + 1, Len(lit)))
  IN  IF ~m.ok \/ ~x.ok THEN NotANumber
      ELSE Truncated(m.ip \o m.fp, Len(m.ip) + x.e, neg)

\* The literal after its sign.
SignlessLiteral(body, neg) ==
  IF IsSpecialFloat(body) \/ ~UnderscoresOk(body) THEN NotANumber
  ELSE UnsignedLiteral(RemoveChar(body, 95), neg)

\* The literal with whitespace stripped.
StrippedLiteral(t0) ==
  IF t0 # <<>> /\ t0[1] \in {43, 45} THEN SignlessLiteral(Tail(t0), t0[1] = 45)
  ELSE SignlessLiteral(t0, FALSE)

\* int(float(s)) for a str s.
IntOfFloatStr(s) == StrippedLiteral(Strip(s))

\* int(float(budget_raw)) for a field value; a number is its own integer value.
IntOfFloat(v) ==
  IF v.t = "int" THEN [ok |-> TRUE, v |-> v.n]
  ELSE IF v.t = "str" THEN IntOfFloatStr(v.s)
  ELSE [ok |-> FALSE, v |-> 0]

(***************************************************************************)
(* datetime.strptime(s, "%Y-%m-%d") and date comparison (lines 386-387).   *)
(***************************************************************************)
IsLeap(y) == (y % 4 = 0 /\ y % 100 # 0) \/ y % 400 = 0

DaysInMonth(y, m) ==
  IF m = 2 THEN (IF IsLeap(y) THEN 29 ELSE 28)
  ELSE IF m \in {4, 6, 9, 11} THEN 30 ELSE 31

\* strptime's %m and %d: one or two digits, %d also a space and a digit; the value,
\* or -1 when the text is not of that form.  Range checks follow in StrpDate.
FieldValue(f, spaceOk) ==
  IF Len(f) = 1 /\ IsDigit(f[1]) THEN DigitVal(f[1])
  ELSE IF Len(f) = 2 /\ IsDigit(f[1]) /\ IsDigit(f[2])
       THEN DigitVal(f[1]) * 10 + DigitVal(f[2])
  ELSE IF spaceOk /\ Len(f) = 2 /\ f[1] = 32 /\ IsDigit(f[2]) THEN DigitVal(f[2])
  ELSE -1

\* datetime.strptime(s, "%Y-%m-%d").date(): [ok |-> FALSE] when it raises
\* ValueError (the text does not match the format, characters remain, or the day
\* does not exist), else the date.  %Y is exactly four digits, %m is 1..12 and %d
\* 1..31 with an optional leading zero (no two-digit form starts with 0 and ends
\* with 0), and year 0 is out of range.
StrpDate(s) ==
  LET bad == [ok |-> FALSE, y |-> 0, m |-> 0, d |-> 0]
      rest == SubSeq(s, 6, Len(s))
      dash == FirstIndexIn(rest, {45})
      mf == SubSeq(rest, 1, dash - 1)
      df == SubSeq(rest, dash + 1, Len(rest))
      y == DigitsValue(SubSeq(s, 1, 4))
      m == FieldValue(mf, FALSE)
      d == FieldValue(df, TRUE)
  IN  IF Len(s) < 8 \/ ~AllDigits(SubSeq(s, 1, 4)) \/ s[5] # 45 \/ dash = 0 THEN bad
      ELSE IF m < 1 \/ m > 12 \/ d < 1 \/ d > 31 THEN bad
      ELSE IF y < 1 \/ d > DaysInMonth(y, m) THEN bad
      ELSE [ok |-> TRUE, y |-> y, m |-> m, d |-> d]

\* date < date
\* A variant of DateLt that compares with <= where line 387 has <.
DateLe(a, b) ==
  \/ a.y < b.y
  \/ a.y = b.y /\ a.m < b.m
  \/ a.y = b.y /\ a.m = b.m /\ a.d <= b.d

DateLt(a, b) ==
  \/ a.y < b.y
  \/ a.y = b.y /\ a.m < b.m
  \/ a.y = b.y /\ a.m = b.m /\ a.d < b.d

\* str(n) of a non-negative integer (the f-string of line 399).
RECURSIVE IntToStr(_)
IntToStr(n) ==
  IF n < 10 THEN <<48 + n>> ELSE IntToStr(n \div 10) \o <<48 + (n % 10)>>

(***************************************************************************)
(* calculate_score (lines 362-499).                                        *)
(***************************************************************************)

\* An optional string: None, or a str.
None == [set |-> FALSE, text |-> <<>>]
Some(x) == [set |-> TRUE, text |-> x]

\* `(v or '')` for a field that is a str or None/absent.
Text(v) == IF v.t = "str" THEN v.s ELSE <<>>

\* A variant of the result dict that starts out relevant.
InitialResult_relevant ==
  [total |-> 0, grade |-> "D", is_relevant |-> TRUE,
   exclusion_reason |-> None, matched_domain |-> None,
   matched_keywords |-> <<>>, domain_score |-> 0,
   industry_score |-> 0, scale_score |-> 0,
   competition_score |-> 0, penalty |-> 0, wkmg_agency |-> FALSE,
   gpt_result |-> None, gpt_adjustment |-> IntVal(0),
   has_ai_bonus |-> FALSE, ai_bonus |-> 0, gpt_reason |-> None]

\* The result dict of lines 373-380.  The key 'ai_bonus' is set on the scored
\* path only (line 493) and 'gpt_reason' by apply_gpt_evaluation only (line 577):
\* has_ai_bonus and gpt_reason.set tell whether the key exists.
InitialResult ==
  [total |-> 0, grade |-> "D", is_relevant |-> FALSE,
   exclusion_reason |-> None, matched_domain |-> None,
   matched_keywords |-> <<>>, domain_score |-> 0,
   industry_score |-> 0, scale_score |-> 0,
   competition_score |-> 0, penalty |-> 0, wkmg_agency |-> FALSE,
   gpt_result |-> None, gpt_adjustment |-> IntVal(0),
   has_ai_bonus |-> FALSE, ai_bonus |-> 0, gpt_reason |-> None]

\* Lines 367-371: budget_raw is item['presmptPrce'] (a listing carries no
\* 'budget_raw' key); the bare except turns every parse error into budget 0.
Budget(it) ==
  LET budget_raw == it.presmptPrce
      parsed == IntOfFloat(budget_raw)
  IN  IF ~Truthy(budget_raw) THEN 0
      ELSE IF parsed.ok THEN parsed.v
      ELSE 0

\* Line 383: the slice [:10] stands outside the try of lines 385-391, so a
\* deadline that is truthy and no str (a JSON number) raises TypeError there.
DeadlineRaises(it) == Truthy(it.bidClseDt) /\ it.bidClseDt.t # "str"

\* Line 383: the first ten characters of item['bidClseDt'] (None reads as '').
DeadlineStr(it) == Prefix(Text(it.bidClseDt), 10)

\* Lines 384-391: whether the deadline filter rejects; a deadline that does not
\* parse is passed over by the bare except.
DeadlinePassed(deadline_str, today) ==
  LET deadline_dt == StrpDate(deadline_str)
  IN  /\ deadline_str # <<>>
      /\ deadline_dt.ok
      /\ DateLt(deadline_dt, today)

\* Line 364: spaces, hyphens and underscores removed.
Normalize(title) == RemoveChar(RemoveChar(RemoveChar(title, 32), 45), 95)

\* Lines 393-396: the index of the first entry of EXCLUSIONS that occurs in the
\* normalized title (the entry itself with its spaces removed), or 0.
FirstExclusion(title_normalized) ==
  LET hit == {i \in 1..Len(EXCLUSIONS) :
                IsSubstr(RemoveChar(EXCLUSIONS[i], 32), title_normalized)}
  IN  IF hit = {} THEN 0 ELSE CHOOSE i \in hit : \A j \in hit : i <= j

\* A variant of the budget floor that also rejects a budget of MIN_BUDGET.
BudgetTooLow_inclusive(budget) == 0 < budget /\ budget <= MIN_BUDGET

\* Line 398.
BudgetTooLow(budget) == 0 < budget /\ budget < MIN_BUDGET

\* Line 404: the keywords of a domain that occur in the title.
MatchedKeywords(d, title, title_normalized) ==
  SelectSeq(d.keywords,
            LAMBDA kw : IsSubstr(kw, title) \/ IsSubstr(RemoveChar(kw, 32), title_normalized))

\* A variant whose partial tier lies a tenth of a point higher.
TierScore_tenth(d, cnt) ==
  IF cnt >= 3 THEN d.max_score ELSE IF cnt = 2 THEN d.partial + 1 ELSE d.marginal

\* Line 407.
TierScore(d, cnt) ==
  IF cnt >= 3 THEN d.max_score ELSE IF cnt = 2 THEN d.partial ELSE d.marginal

\* A variant of the loop in which a later domain of equal score replaces the
\* best one (>= where line 408 has >).
RECURSIVE BestDomainFrom_last(_, _, _, _)
BestDomainFrom_last(i, best, title, title_normalized) ==
  IF i > Len(CORE_DOMAINS) THEN best
  ELSE LET d == CORE_DOMAINS[i]
           matched == MatchedKeywords(d, title, title_normalized)
           tier == TierScore(d, Len(matched))
       IN  IF matched # <<>> /\ tier >= best.score
           THEN BestDomainFrom_last(i + 1, [domain |-> i, score |-> tier, kws |-> matched],
                                    title, title_normalized)
           ELSE BestDomainFrom_last(i + 1, best, title, title_normalized)

\* Lines 402-409: the loop over CORE_DOMAINS from domain i on; best is
\* [domain |-> index or 0, score, kws].
RECURSIVE BestDomainFrom(_, _, _, _)
BestDomainFrom(i, best, title, title_normalized) ==
  IF i > Len(CORE_DOMAINS) THEN best
  ELSE LET d == CORE_DOMAINS[i]
           matched == MatchedKeywords(d, title, title_normalized)
           tier == TierScore(d, Len(matched))
       IN  IF matched # <<>> /\ tier > best.score
           THEN BestDomainFrom(i + 1, [domain |-> i, score |-> tier, kws |-> matched],
                               title, title_normalized)
           ELSE BestDomainFrom(i + 1, best, title, title_normalized)

\* The loop with the later domain winning a tie.
BestDomain_last(title, title_normalized) ==
  BestDomainFrom_last(1, [domain |-> 0, score |-> 0, kws |-> <<>>], title, title_normalized)

BestDomain(title, title_normalized) ==
  BestDomainFrom(1, [domain |-> 0, score |-> 0, kws |-> <<>>], title, title_normalized)

\* Lines 420-424: the largest industry score whose keyword occurs in the title or
\* the agency, at least 5.
RECURSIVE IndustryFrom(_, _, _, _)
IndustryFrom(i, ind_score, title, agency) ==
  IF i > Len(INDUSTRY_SCORES) THEN ind_score
  ELSE LET e == INDUSTRY_SCORES[i]
           hit == IsSubstr(e.kw, title) \/ IsSubstr(e.kw, agency)
       IN  IndustryFrom(i + 1, IF hit /\ e.sc > ind_score THEN e.sc ELSE ind_score,
                        title, agency)

IndustryScore(title, agency) == IndustryFrom(1, 50, title, agency)

\* A variant whose upper band ends below 500,000,000.
ScaleScore_exclusive(budget) ==
  LET budget_sc == IF 10000000 <= budget /\ budget < 500000000 THEN 50
                   ELSE IF 5000000 <= budget /\ budget < 10000000 THEN 40
                   ELSE 30
  IN  budget_sc + 40

\* Lines 426-434.
ScaleScore(budget) ==
  LET budget_sc == IF 10000000 <= budget /\ budget <= 500000000 THEN 50
                   ELSE IF 5000000 <= budget /\ budget < 10000000 THEN 40
                   ELSE IF budget > 500000000 THEN 30
                   ELSE 30
  IN  budget_sc + 40

\* A variant that asks for the agency to be a partner-agency name itself.
IsWkmgAgency_exact(agency, agencies) == agency \in agencies

\* Lines 437-441: some partner-agency name occurs in the agency.
IsWkmgAgency(agency, agencies) == \E w \in agencies : IsSubstr(w, agency)

\* Lines 436-444.
CompetitionScore(wkmg_agency) == 30 + (IF wkmg_agency THEN 30 ELSE 10) + 10

\* Lines 447-449.
TitleWithoutAgency(title, agency) ==
  IF agency # <<>> THEN Strip(RemoveAll(title, agency)) ELSE title

\* any(w in s for w in words)
AnyIn(words, s) == \E i \in 1..Len(words) : IsSubstr(words[i], s)

\* Line 463: the penalty phrase occurs in the title.
PenaltyHit(e, title, title_normalized) ==
  IsSubstr(e.kw, title) \/ IsSubstr(e.kw, title_normalized)

\* Line 465: the mitigation applies to this phrase.
Mitigated(e, has_strategic_context) ==
  has_strategic_context /\ \E i \in 1..Len(OPERATION_PENALTY_KEYWORDS) :
                              OPERATION_PENALTY_KEYWORDS[i] = e.kw

\* A variant of lines 465-469 in which the mitigated phrase also adds its table
\* penalty (the else of line 468 missing).
Contribution_both(e, mitigated) == IF mitigated THEN -70 + e.p ELSE e.p

\* Lines 465-469: what a phrase found in the title adds to the penalty.
Contribution(e, mitigated) == IF mitigated THEN -70 ELSE e.p

\* Lines 462-469: the first penalty layer, the loop over PENALTY_KEYWORDS from
\* entry i on.
RECURSIVE PenaltyFrom(_, _, _, _)
PenaltyFrom(i, title, title_normalized, has_strategic_context) ==
  IF i > Len(PENALTY_KEYWORDS) THEN 0
  ELSE LET e == PENALTY_KEYWORDS[i]
           here == IF ~PenaltyHit(e, title, title_normalized) THEN 0
                   ELSE Contribution(e, Mitigated(e, has_strategic_context))
       IN  here + PenaltyFrom(i + 1, title, title_normalized, has_strategic_context)

\* Line 467: already_reduced after the loop.
AlreadyReduced(title, title_normalized, has_strategic_context) ==
  \E i \in 1..Len(PENALTY_KEYWORDS) :
    /\ PenaltyHit(PENALTY_KEYWORDS[i], title, title_normalized)
    /\ Mitigated(PENALTY_KEYWORDS[i], has_strategic_context)

\* A variant of lines 476-485 that does not look at already_reduced.
Penalty2_twice(title, title_without_agency, already_reduced) ==
  IF AnyIn(EXECUTION_WORDS, title) /\ ~AnyIn(STRATEGY_WORDS, title_without_agency) THEN -150
  ELSE IF AnyIn(EXECUTION_WORDS, title) THEN -70
  ELSE 0

\* Lines 476-485: the second penalty layer.  has_strategy reads the title with the
\* agency removed, has_execution the whole title.
Penalty2(title, title_without_agency, already_reduced) ==
  LET has_strategy == AnyIn(STRATEGY_WORDS, title_without_agency)
      has_execution == AnyIn(EXECUTION_WORDS, title)
  IN  IF has_execution /\ ~has_strategy THEN -150
      ELSE IF has_execution /\ has_strategy /\ ~already_reduced THEN -70
      ELSE 0

\* A variant in which lines 482 and 485 do not store the second layer.
StoredPenalty_layer1(penalty1, penalty2) == penalty1

\* Lines 470, 482 and 485: result["penalty"] holds both layers.
StoredPenalty(penalty1, penalty2) == penalty1 + penalty2

\* Lines 488-492.
AiBonus(title, title_normalized) ==
  IF \E i \in 1..Len(AI_BONUS_KEYWORDS) :
       \/ IsSubstr(AI_BONUS_KEYWORDS[i], title)
       \/ IsSubstr(RemoveChar(AI_BONUS_KEYWORDS[i], 32), title_normalized)
  THEN AI_BONUS_SCORE ELSE 0

\* A variant of the clamp without min(100, ...).
Clamp_lower_only(total) == IF total < 0 THEN 0 ELSE total

\* max(0, min(100, total))
Clamp(total) == IF total < 0 THEN 0 ELSE IF total > 1000 THEN 1000 ELSE total

\* A variant of the grade that gives A only above 65.
Grade_strict(total) ==
  IF total >= 800 THEN "S" ELSE IF total > 650 THEN "A" ELSE IF total >= 550 THEN "B" ELSE "C"

\* A variant of the grade that gives D to a total of 0.
Grade_zero_is_D(total) ==
  IF total >= 800 THEN "S" ELSE IF total >= 650 THEN "A" ELSE IF total >= 550 THEN "B"
  ELSE IF total > 0 THEN "C" ELSE "D"

\* Lines 497 and 580.
Grade(total) ==
  IF total >= 800 THEN "S" ELSE IF total >= 650 THEN "A" ELSE IF total >= 550 THEN "B" ELSE "C"

\* The reason strings of lines 388, 395, 399 and 412.
DeadlineReason(deadline_str) == <<47560,44048,44221,44284,58>> \o deadline_str
KeywordReason(kw) == <<48176,51228,58>> \o kw
BudgetReason(budget) ==
  <<50696,49328,48512,51201,44201,58>> \o IntToStr(budget \div 10000) \o <<47564,50896>>
DomainReason == <<50689,50669,48520,51068,52824>>

\* A variant of the filter order that tests the budget floor first.
Rejection_budget_first(passed, excluded, low, unmatched) ==
  IF low THEN "budget"
  ELSE IF passed THEN "deadline"
  ELSE IF excluded THEN "keyword"
  ELSE IF unmatched THEN "domain"
  ELSE "none"

\* Lines 384-413: the filters in the order of the code; the first one that
\* rejects returns.  passed, excluded, low and unmatched are the conditions of
\* lines 387, 394, 398 and 411.
Rejection(passed, excluded, low, unmatched) ==
  IF passed THEN "deadline"
  ELSE IF excluded THEN "keyword"
  ELSE IF low THEN "budget"
  ELSE IF unmatched THEN "domain"
  ELSE "none"

\* The body of calculate_score (lines 363-499) for listing it at date today with
\* the partner list agencies, starting from the dict result0 of lines 373-380:
\* [raised |-> an exception left the call, result |-> the dict returned].
ScoreFrom(result0, it, today, agencies) ==
  LET title == Strip(Text(it.bidNtceNm))
      title_normalized == Normalize(title)
      agency == Strip(Text(it.ntceInsttNm))
      budget == Budget(it)
      result == result0
      deadline_str == DeadlineStr(it)
      excl == FirstExclusion(title_normalized)
      best == BestDomain(title, title_normalized)
      wkmg_agency == IsWkmgAgency(agency, agencies)
      title_without_agency == TitleWithoutAgency(title, agency)
      has_strategic_context == AnyIn(STRATEGIC_EXEMPTION_WORDS, title_without_agency)
      penalty1 == PenaltyFrom(1, title, title_normalized, has_strategic_context)
      already_reduced == AlreadyReduced(title, title_normalized, has_strategic_context)
      penalty2 == Penalty2(title, title_without_agency, already_reduced)
      penalty == penalty1 + penalty2
      ai_bonus == AiBonus(title, title_normalized)
      scored == [result EXCEPT
                   !.is_relevant = TRUE,
                   !.matched_domain = Some(CORE_DOMAINS[best.domain].name),
                   !.matched_keywords = best.kws,
                   !.domain_score = best.score,
                   !.industry_score = IndustryScore(title, agency),
                   !.scale_score = ScaleScore(budget),
                   !.wkmg_agency = wkmg_agency,
                   !.competition_score = CompetitionScore(wkmg_agency),
                   !.penalty = StoredPenalty(penalty1, penalty2),
                   !.has_ai_bonus = TRUE,
                   !.ai_bonus = ai_bonus]
      total == scored.domain_score + scored.industry_score + scored.scale_score
               + scored.competition_score + penalty + ai_bonus
      rejection == Rejection(DeadlinePassed(deadline_str, today), excl # 0,
                             BudgetTooLow(budget), best.domain = 0)
  IN  IF DeadlineRaises(it) THEN [raised |-> TRUE, result |-> result]
      ELSE IF rejection = "deadline"
      THEN [raised |-> FALSE,
            result |-> [result EXCEPT !.exclusion_reason = Some(DeadlineReason(deadline_str))]]
      ELSE IF rejection = "keyword"
      THEN [raised |-> FALSE,
            result |-> [result EXCEPT !.exclusion_reason = Some(KeywordReason(EXCLUSIONS[excl]))]]
      ELSE IF rejection = "budget"
      THEN [raised |-> FALSE,
            result |-> [result EXCEPT !.exclusion_reason = Some(BudgetReason(budget))]]
      ELSE IF rejection = "domain"
      THEN [raised |-> FALSE,
            result |-> [result EXCEPT !.exclusion_reason = Some(DomainReason)]]
      ELSE [raised |-> FALSE,
            result |-> [scored EXCEPT !.total = Clamp(total), !.grade = Grade(Clamp(total))]]

\* A variant of calculate_score that fills one result dict shared by all calls
\* (the dict of the call before) instead of a fresh one.
calculate_score_shared(it, today, agencies) == ScoreFrom(score, it, today, agencies)

\* calculate_score(item): every call starts from a fresh result dict.
calculate_score(it, today, agencies) == ScoreFrom(InitialResult, it, today, agencies)

(***************************************************************************)
(* _build_wkmg_agencies (lines 313-346).                                   *)
(***************************************************************************)

\* re.search(r'\(([^)]+)\)', name): the text between the leftmost "(" that is
\* followed by at least one character other than ")" and the next ")"; None
\* when there is no such pair.
ParenGroup(name) ==
  LET closeAfter(i) == {j \in (i + 1)..Len(name) : name[j] = 41}
      firstClose(i) == CHOOSE j \in closeAfter(i) : \A k \in closeAfter(i) : j <= k
      opens == {i \in 1..Len(name) :
                  /\ name[i] = 40
                  /\ closeAfter(i) # {}
                  /\ firstClose(i) > i + 1}
      open == CHOOSE i \in opens : \A k \in opens : i <= k
  IN  IF opens = {} THEN None ELSE Some(SubSeq(name, open + 1, firstClose(open) - 1))

\* name.split('(')[0].strip()
BeforeParen(name) ==
  LET p == FirstIndexIn(name, {40})
  IN  Strip(IF p = 0 THEN name ELSE SubSeq(name, 1, p - 1))

\* Lines 316-326 for one site: nothing unless it is flagged wkmg_partner; else
\* its name (the suffix loop of lines 320-322 adds the same name again) and, when
\* the name holds a parenthesis pair, the text inside and the text before it.
SiteAgencies(site) ==
  IF ~site.wkmg_partner THEN {}
  ELSE {site.name} \cup
       (IF ParenGroup(site.name).set
        THEN {ParenGroup(site.name).text, BeforeParen(site.name)}
        ELSE {})

\* Lines 342-344: every alias of alias_map, whatever the sites are.
AliasAgencies ==
  UNION {{alias_map[i].aliases[j] : j \in 1..Len(alias_map[i].aliases)} :
           i \in 1..Len(alias_map)}

\* _build_wkmg_agencies(): the set the returned list holds.
BuildWkmgAgencies(sites) ==
  UNION {SiteAgencies(sites[i]) : i \in 1..Len(sites)} \cup AliasAgencies

(***************************************************************************)
(* apply_gpt_evaluation (lines 562-588), for one record of scored_items.   *)
(***************************************************************************)

\* A variant that takes every record for a candidate.
IsGptCandidate_all(s, config) == TRUE

\* Line 567: the record is a candidate for the second stage.
IsGptCandidate(s, config) == s.total >= config.gpt_threshold /\ s.is_relevant

\* A variant that adds the adjustment without limiting the sum again.
AdjustedTotal_unlimited(total, adjustment) ==
  IF adjustment.t = "int" THEN total + adjustment.n ELSE 1000

\* Line 579: max(0, min(100, total + adjustment)).  min(100, x) keeps 100 unless
\* x < 100, so a NaN sum gives 100; an infinite sum is clamped like any other.
AdjustedTotal(total, adjustment) ==
  IF adjustment.t = "nan" THEN 1000
  ELSE IF adjustment.t = "inf" THEN (IF adjustment.n > 0 THEN Clamp(1001) ELSE Clamp(-1))
  ELSE Clamp(total + adjustment.n)

\* Lines 575-580 for a candidate s and the dict evaluate_with_gpt returned:
\* [raised, result].  The score is whatever JSON value the service sent; adding a
\* str or None to the total raises TypeError after the three gpt_* keys are set.
ApplyReply(s, reply) ==
  LET tagged == [s EXCEPT !.gpt_result = Some(reply.result),
                          !.gpt_reason = Some(reply.reason),
                          !.gpt_adjustment = reply.score]
      total == AdjustedTotal(s.total, reply.score)
  IN  IF reply.score.t \in {"str", "none"} THEN [raised |-> TRUE, result |-> tagged]
      ELSE [raised |-> FALSE,
            result |-> [tagged EXCEPT !.total = total, !.grade = Grade(total)]]

\* apply_gpt_evaluation for record s: answered is whether evaluate_with_gpt
\* returned a dict (it returns None without an API key, on any exception and on
\* a reply with no JSON object), reply that dict.
apply_gpt_evaluation(s, config, answered, reply) ==
  IF ~config.use_gpt \/ ~config.openai_api_key THEN [raised |-> FALSE, result |-> s]
  ELSE IF ~IsGptCandidate(s, config) THEN [raised |-> FALSE, result |-> s]
  ELSE IF ~answered THEN [raised |-> FALSE, result |-> s]
  ELSE ApplyReply(s, reply)

(***************************************************************************)
(* The environment: the listings the fetch layer may deliver, the replies  *)
(* of the second-stage service, the configuration and the calendar.        *)
(***************************************************************************)

\* At most MaxWords title fragments make a title; MaxTicks midnights pass.
MaxWords == 2
MaxTicks == 1

\* Title fragments (code points of the text in the comments):
\*  1 "생성AI브랜드전략": three keywords of domain 1, an AI
\*    bonus keyword and the strategy word "전략"
\*  2 " 운영 용역": an operational penalty phrase written with spaces
\*  3 "db구축": the exclusion keyword "DB구축" in lower case
\*  4 "DB 구축": the same keyword with a space inside
\*  5 "판로": one keyword of domain 3
\*  6 "행사운영행사대행용역채널운영계정운영": four penalty phrases
TitleWords ==
  {<<49373,49457,65,73,48652,47004,46300,51204,47029>>,
   <<32,50868,50689,32,50857,50669>>,
   <<100,98,44396,52629>>,
   <<68,66,32,44396,52629>>,
   <<54032,47196>>,
   <<54665,49324,50868,50689,54665,49324,45824,54665,50857,50669,52292,45328,50868,50689,
     44228,51221,50868,50689>>}

RECURSIVE Concat(_)
Concat(ws) == IF ws = <<>> THEN <<>> ELSE Head(ws) \o Concat(Tail(ws))

Titles == {Concat(ws) : ws \in UNION {[1..n -> TitleWords] : n \in 0..MaxWords}}

\* Agencies: a partner (an alias of alias_map, with the industry keyword
\* "식품" inside) and a name that is no partner.
Agencies ==
  {<<54620,44397,45453,49688,49328,49885,54408,50976,53685,44277,49324>>,
   <<49436,50872,53945,48324,49884>>}

\* presmptPrce: 0, "29999999.9", 30000000, "3천만원" (no number), "1e8".
Budgets ==
  {IntVal(0), StrVal(<<50,57,57,57,57,57,57,57,46,57>>), IntVal(30000000),
   StrVal(<<51,52380,47564,50896>>), StrVal(<<49,101,56>>)}

\* bidClseDt: null, "2025-12-31 10:00:00", "2026-01-02 18:00", "2025/12/30" (a
\* past date in a form strptime rejects) and the JSON number 20251230.
Deadlines ==
  {NoneVal, IntVal(20251230),
   StrVal(<<50,48,50,53,45,49,50,45,51,49,32,49,48,58,48,48,58,48,48>>),
   StrVal(<<50,48,50,54,45,48,49,45,48,50,32,49,56,58,48,48>>),
   StrVal(<<50,48,50,53,47,49,50,47,51,48>>)}

Items ==
  {[bidNtceNm |-> StrVal(ti), ntceInsttNm |-> StrVal(ag), presmptPrce |-> bu, bidClseDt |-> dl] :
     ti \in Titles, ag \in Agencies, bu \in Budgets, dl \in Deadlines}

NoItem ==
  [bidNtceNm |-> NoneVal, ntceInsttNm |-> NoneVal, presmptPrce |-> NoneVal, bidClseDt |-> NoneVal]

\* The replies of the second-stage service: the verdict "적합" (fit) or
\* "부적합" (unfit) with a score in tenths: +10, -7.5, +60, -100, and the
\* JSON values NaN, -Infinity and "10".
GptReplies ==
  {[result |-> <<51201,54633>>, score |-> IntVal(100), reason |-> <<>>],
   [result |-> <<48512,51201,54633>>, score |-> IntVal(-75), reason |-> <<>>],
   [result |-> <<51201,54633>>, score |-> IntVal(600), reason |-> <<>>],
   [result |-> <<48512,51201,54633>>, score |-> IntVal(-1000), reason |-> <<>>],
   [result |-> <<51201,54633>>, score |-> NanVal, reason |-> <<>>],
   [result |-> <<48512,51201,54633>>, score |-> InfVal(-1), reason |-> <<>>],
   [result |-> <<51201,54633>>, score |-> StrVal(<<49,48>>), reason |-> <<>>]}

\* CONFIG: the defaults of lines 76-77 with an API key set, and use_gpt off.
Configs ==
  {[use_gpt |-> TRUE, openai_api_key |-> TRUE, gpt_threshold |-> 550],
   [use_gpt |-> FALSE, openai_api_key |-> TRUE, gpt_threshold |-> 550]}

\* sites_db.json: a partner site whose name holds a parenthesis, and a site that
\* is no partner.
Sites ==
  <<[name |-> <<54620,44397,46356,51088,51064,51652,55141,50896,40,75,73,68,80,41>>,
     wkmg_partner |-> TRUE],
    [name |-> <<49436,50872,53945,48324,49884>>, wkmg_partner |-> FALSE]>>

\* The calendar: the day after a date, and the days the model runs through.
DayAfter(d) ==
  IF d.d < DaysInMonth(d.y, d.m) THEN [d EXCEPT !.d = d.d + 1]
  ELSE IF d.m < 12 THEN [d EXCEPT !.m = d.m + 1, !.d = 1]
  ELSE [ok |-> TRUE, y |-> d.y + 1, m |-> 1, d |-> 1]

RECURSIVE DaysAfter(_, _)
DaysAfter(d, n) == IF n = 0 THEN d ELSE DaysAfter(DayAfter(d), n - 1)

FirstDay == [ok |-> TRUE, y |-> 2025, m |-> 12, d |-> 31]
LastDay == DaysAfter(FirstDay, MaxTicks)

NoCall == [set |-> FALSE, item |-> NoItem, now |-> FirstDay, result |-> InitialResult]

(***************************************************************************)
(* Actions.                                                                *)
(***************************************************************************)
Init ==
  /\ now = FirstDay
  /\ SITES_DB = Sites
  /\ WKMG_AGENCIES = BuildWkmgAgencies(Sites)
  /\ CONFIG \in Configs
  /\ item = NoItem
  /\ score = InitialResult
  /\ pc = "idle"
  /\ first = NoCall
  /\ g2b_items = <<>>
  /\ direct_items = <<>>
  /\ all_items = <<>>
  /\ unique = <<>>
  /\ stage = "start"
  /\ Idle

\* The fetch layer hands over a listing.
Fetch ==
  /\ pc = "idle"
  /\ \E it \in Items : item' = it
  /\ pc' = "fetched"
  /\ UNCHANGED <<now, SITES_DB, WKMG_AGENCIES, CONFIG, score, first>>
  /\ UNCHANGED <<batch, run, koneps, spd>>

\* main, line 1250: score = calculate_score(item).
Score ==
  /\ pc = "fetched"
  /\ LET r == calculate_score(item, now, WKMG_AGENCIES)
     IN  /\ score' = r.result
         /\ pc' = IF r.raised THEN "raised" ELSE "scored"
  /\ UNCHANGED <<now, SITES_DB, WKMG_AGENCIES, CONFIG, item, first>>
  /\ UNCHANGED <<batch, run, koneps, spd>>

\* main, lines 1284-1285: apply_gpt_evaluation on the scored record, with
\* whatever the service answers.
ApplyGptEvaluation ==
  /\ pc = "scored"
  /\ \E answered \in BOOLEAN : \E reply \in GptReplies :
       LET r == apply_gpt_evaluation(score, CONFIG, answered, reply)
       IN  /\ score' = r.result
           /\ pc' = IF r.raised THEN "crashed" ELSE "evaluated"
  /\ UNCHANGED <<now, SITES_DB, WKMG_AGENCIES, CONFIG, item, first>>
  /\ UNCHANGED <<batch, run, koneps, spd>>

\* The record is handed on; the next listing may come.
Reset ==
  /\ pc = "evaluated"
  /\ pc' = "idle"
  /\ item' = NoItem
  /\ score' = InitialResult
  /\ UNCHANGED <<now, SITES_DB, WKMG_AGENCIES, CONFIG, first>>
  /\ UNCHANGED <<batch, run, koneps, spd>>

\* Midnight passes between two calls.
Tick ==
  /\ pc = "idle"
  /\ DateLt(now, LastDay)
  /\ now' = DayAfter(now)
  /\ UNCHANGED <<SITES_DB, WKMG_AGENCIES, CONFIG, item, score, pc, first>>
  /\ UNCHANGED <<batch, run, koneps, spd>>

Next == Fetch \/ Score \/ ApplyGptEvaluation \/ Reset \/ Tick

Spec == Init /\ [][Next]_vars

(***************************************************************************)
(* Repeated calls: the same listing may be scored again, after other       *)
(* listings and after midnight; first remembers one earlier call.  The     *)
(* records stay in the list main builds, so score is not cleared.          *)
(***************************************************************************)

\* The listings of the repeated calls: "생성AI브랜드전략" or "DB 구축", of
\* 서울특별시, for 30000000 or "29999999.9", closing never or on
\* "2025-12-31 10:00:00".
SampleItems ==
  {[bidNtceNm |-> StrVal(ti), ntceInsttNm |-> StrVal(<<49436,50872,53945,48324,49884>>),
    presmptPrce |-> bu, bidClseDt |-> dl] :
     ti \in {<<49373,49457,65,73,48652,47004,46300,51204,47029>>, <<68,66,32,44396,52629>>},
     bu \in {IntVal(30000000), StrVal(<<50,57,57,57,57,57,57,57,46,57>>)},
     dl \in {NoneVal, StrVal(<<50,48,50,53,45,49,50,45,51,49,32,49,48,58,48,48,58,48,48>>)}}

FetchSample ==
  /\ pc = "idle"
  /\ \E it \in SampleItems : item' = it
  /\ pc' = "fetched"
  /\ UNCHANGED <<now, SITES_DB, WKMG_AGENCIES, CONFIG, score, first>>
  /\ UNCHANGED <<batch, run, koneps, spd>>

\* The first call whose result is kept for comparison.
Remember ==
  /\ pc = "scored"
  /\ ~first.set
  /\ first' = [set |-> TRUE, item |-> item, now |-> now, result |-> score]
  /\ pc' = "idle"
  /\ UNCHANGED <<now, SITES_DB, WKMG_AGENCIES, CONFIG, item, score>>
  /\ UNCHANGED <<batch, run, koneps, spd>>

\* A later call returns; the loop of main goes on.
Return ==
  /\ pc = "scored"
  /\ first.set
  /\ pc' = "idle"
  /\ UNCHANGED <<now, SITES_DB, WKMG_AGENCIES, CONFIG, item, score, first>>
  /\ UNCHANGED <<batch, run, koneps, spd>>

NextRepeat == FetchSample \/ Score \/ Remember \/ Return \/ Tick

SpecRepeat == Init /\ [][NextRepeat]_vars

(***************************************************************************)
(* Listings whose title carries the name of the agency, as the titles of   *)
(* public tenders often do.                                                *)
(***************************************************************************)

\* At most MaxEmbedded fragments make such a title.
MaxEmbedded == 3

\* "기획재정부" (an agency whose name holds the exemption word "기획"),
\* " 운영 용역" and "운영활성화" (operational penalty phrases), "판로" (a
\* keyword of domain 3) and "유통전략" (a keyword of domain 3 that holds the
\* exemption word "전략").
EmbeddedWords ==
  {<<44592,54925,51116,51221,48512>>,
   <<32,50868,50689,32,50857,50669>>,
   <<50868,50689,54876,49457,54868>>,
   <<54032,47196>>,
   <<50976,53685,51204,47029>>}

EmbeddedTitles ==
  {Concat(ws) : ws \in UNION {[1..n -> EmbeddedWords] : n \in 0..MaxEmbedded}}

\* The agency is "기획재정부" or "서울특별시".
EmbeddedItems ==
  {[bidNtceNm |-> StrVal(ti), ntceInsttNm |-> StrVal(ag), presmptPrce |-> IntVal(0),
    bidClseDt |-> NoneVal] :
     ti \in EmbeddedTitles,
     ag \in {<<44592,54925,51116,51221,48512>>, <<49436,50872,53945,48324,49884>>}}

FetchEmbedded ==
  /\ pc = "idle"
  /\ \E it \in EmbeddedItems : item' = it
  /\ pc' = "fetched"
  /\ UNCHANGED <<now, SITES_DB, WKMG_AGENCIES, CONFIG, score, first>>
  /\ UNCHANGED <<batch, run, koneps, spd>>

NextAgency == FetchEmbedded \/ Score \/ ApplyGptEvaluation \/ Reset \/ Tick

SpecAgency == Init /\ [][NextAgency]_vars

(***************************************************************************)
(* Listings whose titles are made of keywords of the four domains, so that *)
(* every tier of a domain and ties between domains occur.                  *)
(***************************************************************************)

\* At most MaxKeywords fragments make such a title.
MaxKeywords == 3

\* "네이밍" (domain 1), "컨셉개발" (domain 2, and "컨셉" of domain 1),
\* "상품화" (domain 2), "판로" and "유통전략" (domain 3), "홍보전략"
\* (domain 4) and the operational penalty phrase " 운영 용역".
TierWords ==
  {<<45348,51060,48141>>,
   <<52968,49481,44060,48156>>,
   <<49345,54408,54868>>,
   <<54032,47196>>,
   <<50976,53685,51204,47029>>,
   <<54861,48372,51204,47029>>,
   <<32,50868,50689,32,50857,50669>>}

TierTitles ==
  {Concat(ws) : ws \in UNION {[1..n -> TierWords] : n \in 0..MaxKeywords}}

\* Of 서울특별시, with no budget and no deadline given.
TierItems ==
  {[bidNtceNm |-> StrVal(ti), ntceInsttNm |-> StrVal(<<49436,50872,53945,48324,49884>>),
    presmptPrce |-> IntVal(0), bidClseDt |-> NoneVal] : ti \in TierTitles}

FetchTier ==
  /\ pc = "idle"
  /\ \E it \in TierItems : item' = it
  /\ pc' = "fetched"
  /\ UNCHANGED <<now, SITES_DB, WKMG_AGENCIES, CONFIG, score, first>>
  /\ UNCHANGED <<batch, run, koneps, spd>>

NextTier == FetchTier \/ Score \/ ApplyGptEvaluation \/ Reset \/ Tick

SpecTier == Init /\ [][NextTier]_vars

(***************************************************************************)
(* Listings of an agency whose name holds an execution word.               *)
(***************************************************************************)

\* "한국자산관리공사" (the agency, with the execution word "관리" inside),
\* "판로" and "유통전략" (keywords of domain 3, the second with the
\* strategy word "전략") and the operational penalty phrase " 운영 용역".
ExecutionWords ==
  {<<54620,44397,51088,49328,44288,47532,44277,49324>>,
   <<54032,47196>>,
   <<50976,53685,51204,47029>>,
   <<32,50868,50689,32,50857,50669>>}

\* Titles of at most MaxEmbedded of these fragments.
ExecutionTitles ==
  {Concat(ws) : ws \in UNION {[1..n -> ExecutionWords] : n \in 0..MaxEmbedded}}

\* The agency is "한국자산관리공사" or "서울특별시".
ExecutionItems ==
  {[bidNtceNm |-> StrVal(ti), ntceInsttNm |-> StrVal(ag), presmptPrce |-> IntVal(0),
    bidClseDt |-> NoneVal] :
     ti \in ExecutionTitles,
     ag \in {<<54620,44397,51088,49328,44288,47532,44277,49324>>,
             <<49436,50872,53945,48324,49884>>}}

FetchExecution ==
  /\ pc = "idle"
  /\ \E it \in ExecutionItems : item' = it
  /\ pc' = "fetched"
  /\ UNCHANGED <<now, SITES_DB, WKMG_AGENCIES, CONFIG, score, first>>
  /\ UNCHANGED <<batch, run, koneps, spd>>

NextExecution == FetchExecution \/ Score \/ ApplyGptEvaluation \/ Reset \/ Tick

SpecExecution == Init /\ [][NextExecution]_vars

(***************************************************************************)
(* The partner list under several contents of sites_db.json.               *)
(***************************************************************************)

\* The site "한국디자인진흥원(KIDP)", flagged or not.
KidpSite(flag) ==
  [name |-> <<54620,44397,46356,51088,51064,51652,55141,50896,40,75,73,68,80,41>>,
   wkmg_partner |-> flag]

\* The site "(재)서울테크노파크": its name opens with the parenthesis.
TechnoparkSite(flag) ==
  [name |-> <<40,51116,41,49436,50872,53580,53356,45432,54028,53356>>, wkmg_partner |-> flag]

\* sites_db.json: no site, one site that is no partner, one partner, or a
\* partner whose name opens with a parenthesis next to one that is none.
SiteLists ==
  {<<>>, <<KidpSite(FALSE)>>, <<KidpSite(TRUE)>>,
   <<TechnoparkSite(TRUE), KidpSite(FALSE)>>}

\* "판로", "db구축" or no title, of "한국디자인진흥원(KIDP)", "한국관광공사"
\* or "서울특별시".
PartnerItems ==
  {[bidNtceNm |-> StrVal(ti), ntceInsttNm |-> StrVal(ag), presmptPrce |-> IntVal(0),
    bidClseDt |-> NoneVal] :
     ti \in {<<54032,47196>>, <<100,98,44396,52629>>, <<>>},
     ag \in {<<54620,44397,46356,51088,51064,51652,55141,50896,40,75,73,68,80,41>>,
             <<54620,44397,44288,44305,44277,49324>>,
             <<49436,50872,53945,48324,49884>>}}

InitPartners ==
  /\ now = FirstDay
  /\ SITES_DB \in SiteLists
  /\ WKMG_AGENCIES = BuildWkmgAgencies(SITES_DB)
  /\ CONFIG \in Configs
  /\ item = NoItem
  /\ score = InitialResult
  /\ pc = "idle"
  /\ first = NoCall
  /\ g2b_items = <<>>
  /\ direct_items = <<>>
  /\ all_items = <<>>
  /\ unique = <<>>
  /\ stage = "start"
  /\ Idle

FetchPartner ==
  /\ pc = "idle"
  /\ \E it \in PartnerItems : item' = it
  /\ pc' = "fetched"
  /\ UNCHANGED <<now, SITES_DB, WKMG_AGENCIES, CONFIG, score, first>>
  /\ UNCHANGED <<batch, run, koneps, spd>>

NextPartners == FetchPartner \/ Score \/ ApplyGptEvaluation \/ Reset \/ Tick

SpecPartners == InitPartners /\ [][NextPartners]_vars

(***************************************************************************)
(* fetch_all_bids (lines 848-889): the listings of the two sources are     *)
(* joined and one listing per fingerprint is kept.                         *)
(***************************************************************************)

\* str.lower() of one character, for the cased letters of ASCII, Latin-1 and
\* the full-width forms; Hangul, digits and punctuation have no case.
StrLowerChar(c) ==
  IF c \in 65..90 \/ c \in 192..214 \/ c \in 216..222 \/ c \in 65313..65338
  THEN c + 32 ELSE c

StrLower(s) == [i \in 1..Len(s) |-> StrLowerChar(s[i])]

\* re.sub(r'\s+', '', s): every run of whitespace removed.
RemoveWhitespace(s) == SelectSeq(s, LAMBDA c : ~IsSpace(c))

\* A variant that hashes the concatenation as it is.
make_fingerprint_exact(title, agency) == [md5 |-> title \o agency]

\* A variant that hashes the title alone.
make_fingerprint_title_only(title, agency) ==
  [md5 |-> RemoveWhitespace(StrLower(title))]

\* Lines 354-356.  The digest (16 hex digits of MD5) is kept as the string
\* it is taken of: two fingerprints are equal exactly when the normalized
\* strings are, digest collisions left aside.
make_fingerprint(title, agency) ==
  [md5 |-> RemoveWhitespace(StrLower(title \o agency))]

\* Lines 877-880 for one listing: its title and its fingerprint.
TitleText(it) == Text(it.bidNtceNm)
FingerprintOf(it) == make_fingerprint(TitleText(it), it.ntceInsttNm.s)

\* Lines 876-884 from the listing at the head of items on: seen holds the
\* keys of the dict seen, kept is the list unique.
RECURSIVE DedupLoop(_, _, _)
DedupLoop(items, seen, kept) ==
  IF items = <<>> THEN kept
  ELSE IF TitleText(Head(items)) = <<>> THEN DedupLoop(Tail(items), seen, kept)
  ELSE IF FingerprintOf(Head(items)) \notin seen
       THEN DedupLoop(Tail(items), seen \cup {FingerprintOf(Head(items))},
                      Append(kept, Head(items)))
       ELSE DedupLoop(Tail(items), seen, kept)

Reverse(s) == [i \in 1..Len(s) |-> s[Len(s) + 1 - i]]

\* A variant that keeps the last listing of each fingerprint.
Dedup_keep_last(items) == Reverse(DedupLoop(Reverse(items), {}, <<>>))

\* A variant that compares each listing with the one before it only.
RECURSIVE DedupAdjacentLoop(_, _, _)
DedupAdjacentLoop(items, seen, kept) ==
  IF items = <<>> THEN kept
  ELSE IF TitleText(Head(items)) = <<>> THEN DedupAdjacentLoop(Tail(items), seen, kept)
  ELSE IF FingerprintOf(Head(items)) \notin seen
       THEN DedupAdjacentLoop(Tail(items), {FingerprintOf(Head(items))},
                              Append(kept, Head(items)))
       ELSE DedupAdjacentLoop(Tail(items), seen, kept)

Dedup_adjacent(items) == DedupAdjacentLoop(items, {}, <<>>)

\* A variant that removes nothing.
Dedup_nothing(items) == items

\* Lines 874-884: seen = {}, unique = [], then the loop.
Dedup(items) == DedupLoop(items, {}, <<>>)

\* The two sources return at most MaxBatch listings together.
MaxBatch == 3

\* Titles "AI 전략", "ai전략" and the empty title; agencies "서울시",
\* "서울 시" and "KIDP".
BatchTitles == {<<65,73,32,51204,47029>>, <<97,105,51204,47029>>, <<>>}

BatchAgencies == {<<49436,50872,49884>>, <<49436,50872,32,49884>>, <<75,73,68,80>>}

\* What fetch_koneps can return (line 831: _source is "나라장터").
KonepsItems ==
  {[bidNtceNm |-> StrVal(ti), ntceInsttNm |-> StrVal(ag),
    presmptPrce |-> IntVal(30000000), bidClseDt |-> NoneVal,
    source |-> <<45208,46972,51109,53552>>] :
     ti \in BatchTitles, ag \in BatchAgencies}

\* What crawl_direct_sites can return (lines 755-765: the agency is the name
\* of the site, the budget "0" and _source "직접크롤링:" and the name).
CrawledItems ==
  {[bidNtceNm |-> StrVal(ti), ntceInsttNm |-> StrVal(ag),
    presmptPrce |-> StrVal(<<48>>), bidClseDt |-> StrVal(<<>>),
    source |-> <<51649,51217,53356,47204,47553,58>> \o ag] :
     ti \in BatchTitles, ag \in BatchAgencies}

\* main, line 1230: items = fetch_all_bids().
FetchAllBids ==
  /\ stage = "start"
  /\ \E n \in 0..MaxBatch : \E k \in 0..n :
       \E g \in [1..k -> KonepsItems] : \E d \in [1..(n - k) -> CrawledItems] :
         /\ g2b_items' = g
         /\ direct_items' = d
         /\ all_items' = g \o d
         /\ unique' = Dedup(g \o d)
  /\ stage' = "returned"
  /\ UNCHANGED <<now, SITES_DB, WKMG_AGENCIES, CONFIG, item, score, pc, first>>
  /\ UNCHANGED <<run, koneps, spd>>

\* The settings of lines 76-77 with an API key set; fetch_all_bids reads none
\* of them but search_days and the fetch parameters.
InitDedup == Init /\ CONFIG = [use_gpt |-> TRUE, openai_api_key |-> TRUE, gpt_threshold |-> 550]

NextDedup == FetchAllBids

SpecDedup == InitDedup /\ [][NextDedup]_vars

(***************************************************************************)
(* The second stage under every setting of CONFIG: use_gpt on or off, an   *)
(* API key set or not, gpt_threshold 55 (the default of line 77) or 65,    *)
(* with listings whose totals lie below, at and above these thresholds.    *)
(***************************************************************************)

GptConfigs ==
  {[use_gpt |-> u, openai_api_key |-> k, gpt_threshold |-> th] :
     u \in BOOLEAN, k \in BOOLEAN, th \in {550, 650}}

\* "브랜드전략운영용역운영활성화" (total 55 or 57), "판로" (65 or 67),
\* "생성AI브랜드전략" (87 or 89), "판로 운영 용역" (35 or 37) and "db구축"
\* (no domain), of 서울특별시, for 0 or 30000000.
GptTitles ==
  {<<48652,47004,46300,51204,47029,50868,50689,50857,50669,50868,50689,54876,49457,54868>>,
   <<54032,47196>>,
   <<49373,49457,65,73,48652,47004,46300,51204,47029>>,
   <<54032,47196,32,50868,50689,32,50857,50669>>,
   <<100,98,44396,52629>>}

GptItems ==
  {[bidNtceNm |-> StrVal(ti), ntceInsttNm |-> StrVal(<<49436,50872,53945,48324,49884>>),
    presmptPrce |-> bu, bidClseDt |-> NoneVal] :
     ti \in GptTitles, bu \in {IntVal(0), IntVal(30000000)}}

InitGpt ==
  /\ now = FirstDay
  /\ SITES_DB = Sites
  /\ WKMG_AGENCIES = BuildWkmgAgencies(Sites)
  /\ CONFIG \in GptConfigs
  /\ item = NoItem
  /\ score = InitialResult
  /\ pc = "idle"
  /\ first = NoCall
  /\ g2b_items = <<>>
  /\ direct_items = <<>>
  /\ all_items = <<>>
  /\ unique = <<>>
  /\ stage = "start"
  /\ Idle

FetchGpt ==
  /\ pc = "idle"
  /\ \E it \in GptItems : item' = it
  /\ pc' = "fetched"
  /\ UNCHANGED <<now, SITES_DB, WKMG_AGENCIES, CONFIG, score, first>>
  /\ UNCHANGED <<batch, run, koneps, spd>>

NextGpt == FetchGpt \/ Score \/ ApplyGptEvaluation \/ Reset \/ Tick

SpecGpt == InitGpt /\ [][NextGpt]_vars

(***************************************************************************)
(* Budgets of every band of the scale step (lines 426-434).                *)
(***************************************************************************)

\* presmptPrce: "-1", 0, "4999999", "7000000", "9999999.5", "29999999",
\* 30000000, "500000000", "500000001" and "1e10".
ScaleBudgets ==
  {StrVal(<<45,49>>), IntVal(0), StrVal(<<52,57,57,57,57,57,57>>),
   StrVal(<<55,48,48,48,48,48,48>>), StrVal(<<57,57,57,57,57,57,57,46,53>>),
   StrVal(<<50,57,57,57,57,57,57,57>>), IntVal(30000000),
   StrVal(<<53,48,48,48,48,48,48,48,48>>), StrVal(<<53,48,48,48,48,48,48,48,49>>),
   StrVal(<<49,101,49,48>>)}

\* Titles "판로" (domain 3) and "db구축" (no domain), of "서울특별시".
ScaleItems ==
  {[bidNtceNm |-> StrVal(ti), ntceInsttNm |-> StrVal(<<49436,50872,53945,48324,49884>>),
    presmptPrce |-> bu, bidClseDt |-> NoneVal] :
     ti \in {<<54032,47196>>, <<100,98,44396,52629>>}, bu \in ScaleBudgets}

FetchScale ==
  /\ pc = "idle"
  /\ \E it \in ScaleItems : item' = it
  /\ pc' = "fetched"
  /\ UNCHANGED <<now, SITES_DB, WKMG_AGENCIES, CONFIG, score, first>>
  /\ UNCHANGED <<batch, run, koneps, spd>>

NextScale == FetchScale \/ Score \/ ApplyGptEvaluation \/ Reset \/ Tick

SpecScale == Init /\ [][NextScale]_vars

(***************************************************************************)
(* main (lines 1223-1320): the listings fetch_all_bids returns are scored  *)
(* one by one, adjusted by the second stage, and sorted into the priority, *)
(* quick-win and candidates lists.                                         *)
(***************************************************************************)

\* f"{n:,}" for n >= 0: the decimal digits in groups of three.
RECURSIVE FormatThousands(_)
FormatThousands(n) ==
  IF n < 1000 THEN IntToStr(n)
  ELSE LET low == n % 1000
           pad == IF low < 10 THEN <<48, 48>> ELSE IF low < 100 THEN <<48>> ELSE <<>>
       IN  FormatThousands(n \div 1000) \o <<44>> \o pad \o IntToStr(low)

\* "미정" (undetermined) and "만원" (ten thousand won).
Undetermined == <<48120,51221>>
Manwon == <<47564,50896>>

\* Lines 1252-1257: budget_str.  The bare except turns a parse error into "미정".
BudgetStr(it) ==
  LET budget_raw == it.presmptPrce
      parsed == IntOfFloat(budget_raw)
      budget == IF ~Truthy(budget_raw) THEN 0 ELSE parsed.v
  IN  IF Truthy(budget_raw) /\ ~parsed.ok THEN Undetermined
      ELSE IF budget > 0 THEN FormatThousands(budget \div 10000) \o Manwon
      ELSE Undetermined

\* str.replace(k, ''): every occurrence of k removed, from the left.
RECURSIVE RemoveSub(_, _)
RemoveSub(s, k) ==
  IF Len(s) < Len(k) \/ k = <<>> THEN s
  ELSE IF SubSeq(s, 1, Len(k)) = k THEN RemoveSub(SubSeq(s, Len(k) + 1, Len(s)), k)
  ELSE <<Head(s)>> \o RemoveSub(Tail(s), k)

\* int(s) for the strings get_budget_value meets: digits between whitespace;
\* everything else raises ValueError there.
IntOfDigits(s) ==
  LET t0 == Strip(s)
  IN  IF t0 # <<>> /\ AllDigits(t0) THEN [ok |-> TRUE, v |-> DigitsValue(t0)]
      ELSE NotANumber

\* A variant that reads the number of ten-thousands as the budget itself.
get_budget_value_units(x) ==
  LET num == IntOfDigits(RemoveSub(RemoveSub(x.budget, <<44>>), Manwon))
  IN  IF IsSubstr(Undetermined, x.budget) THEN 0
      ELSE IF num.ok THEN num.v
      ELSE 0

\* Lines 1306-1315.
get_budget_value(x) ==
  LET num == IntOfDigits(RemoveSub(RemoveSub(x.budget, <<44>>), Manwon))
  IN  IF IsSubstr(Undetermined, x.budget) THEN 0
      ELSE IF num.ok THEN num.v * 10000
      ELSE 0

\* Lines 1265-1274: the record main appends for listing it with result sc.
ScoredRecord(it, sc) ==
  [title |-> it.bidNtceNm, agency |-> it.ntceInsttNm, budget |-> BudgetStr(it),
   deadline |-> DeadlineStr(it), source |-> it.source, score |-> sc]

\* Two decimal digits, zero-padded; strftime("%Y-%m-%d") of a date.
TwoDigits(n) == <<48 + (n \div 10), 48 + (n % 10)>>
TodayStr(d) == IntToStr(d.y) \o <<45>> \o TwoDigits(d.m) \o <<45>> \o TwoDigits(d.d)

\* a < b for two str: the comparison of Python, code point by code point.
RECURSIVE StrLt(_, _)
StrLt(a, b) ==
  IF b = <<>> THEN FALSE
  ELSE IF a = <<>> THEN TRUE
  ELSE IF Head(a) # Head(b) THEN Head(a) < Head(b)
  ELSE StrLt(Tail(a), Tail(b))

\* Lines 1296-1300.
is_not_expired(x, today_str) ==
  IF x.deadline = <<>> THEN TRUE ELSE ~StrLt(x.deadline, today_str)

\* sorted(xs, key=lambda x: -x["score"]["total"]): a stable sort, records of
\* equal total keep their order.
RECURSIVE InsertByTotal(_, _)
InsertByTotal(sorted, x) ==
  IF sorted = <<>> THEN <<x>>
  ELSE IF Head(sorted).score.total >= x.score.total
       THEN <<Head(sorted)>> \o InsertByTotal(Tail(sorted), x)
       ELSE <<x>> \o sorted

RECURSIVE SortedFrom(_, _)
SortedFrom(xs, acc) ==
  IF xs = <<>> THEN acc ELSE SortedFrom(Tail(xs), InsertByTotal(acc, Head(xs)))

SortedByTotal(xs) == SortedFrom(xs, <<>>)

\* Line 1303: all_recommend.
AllRecommend(xs, today_str) ==
  SortedByTotal(SelectSeq(xs, LAMBDA x : x.score.grade \in {"S", "A", "B"}
                                          /\ is_not_expired(x, today_str)))

\* Line 1304: candidates.
Candidates(xs, today_str) ==
  SortedByTotal(SelectSeq(xs, LAMBDA x : x.score.grade \in {"S", "A", "B", "C"}
                                          /\ is_not_expired(x, today_str)))

\* Line 1318: recommend.
Recommend(all_recommend) ==
  SelectSeq(all_recommend,
            LAMBDA x : get_budget_value(x) >= PRIORITY_BUDGET \/ get_budget_value(x) = 0)

\* Line 1320: quick_win.
QuickWin(all_recommend) ==
  SelectSeq(all_recommend,
            LAMBDA x : 0 < get_budget_value(x) /\ get_budget_value(x) < PRIORITY_BUDGET)

\* Lines 562-588 over the list scored_items: answers[k] is what
\* evaluate_with_gpt gives for the k-th record if it is asked; a TypeError at one
\* record leaves the records after it as they were.
RECURSIVE EvaluateFrom(_, _, _, _)
EvaluateFrom(xs, answers, config, done) ==
  IF xs = <<>> THEN [raised |-> FALSE, items |-> done]
  ELSE LET r == apply_gpt_evaluation(Head(xs).score, config,
                                     Head(answers).answered, Head(answers).reply)
           x == [Head(xs) EXCEPT !.score = r.result]
       IN  IF r.raised THEN [raised |-> TRUE, items |-> done \o <<x>> \o Tail(xs)]
           ELSE EvaluateFrom(Tail(xs), Tail(answers), config, Append(done, x))

\* A run of main handles at most MaxRun listings.
MaxRun == 2

\* A listing of fetch_koneps in a run (agency "서울특별시").
RunItem(ti, bu, dl) ==
  [bidNtceNm |-> StrVal(ti), ntceInsttNm |-> StrVal(<<49436,50872,53945,48324,49884>>),
   presmptPrce |-> bu, bidClseDt |-> dl, source |-> <<45208,46972,51109,53552>>]

\* The titles of a run: "생성AI브랜드전략", "판로", "판 로" and
\* "판로 운영 용역".
RunTitleS == <<49373,49457,65,73,48652,47004,46300,51204,47029>>
RunTitleA == <<54032,47196>>
RunTitleSpaced == <<54032,32,47196>>
RunTitleC == <<54032,47196,32,50868,50689,32,50857,50669>>

\* The deadlines of a run: "2026-01-01 10:00:00" and "2026-1-1".
RunDeadlinePadded == StrVal(<<50,48,50,54,45,48,49,45,48,49,32,49,48,58,48,48,58,48,48>>)
RunDeadlineUnpadded == StrVal(<<50,48,50,54,45,49,45,49>>)

\* What fetch_koneps returns in a run: budgets 0, "30000000", "49999999" and
\* "50000000", with and without a deadline.
RunKonepsItems ==
  {RunItem(RunTitleS, StrVal(<<53,48,48,48,48,48,48,48>>), NoneVal),
   RunItem(RunTitleS, StrVal(<<51,48,48,48,48,48,48,48>>), RunDeadlinePadded),
   RunItem(RunTitleA, IntVal(0), RunDeadlinePadded),
   RunItem(RunTitleA, StrVal(<<52,57,57,57,57,57,57,57>>), NoneVal),
   RunItem(RunTitleSpaced, StrVal(<<51,48,48,48,48,48,48,48>>), RunDeadlineUnpadded),
   RunItem(RunTitleC, StrVal(<<51,48,48,48,48,48,48,48>>), NoneVal)}

\* What crawl_direct_sites returns in a run: the title "판로" on the site of
\* "서울특별시" (lines 755-765: budget "0", the date as the page parser
\* gave it: none, or "2026-1-1").
RunCrawledItems ==
  {[bidNtceNm |-> StrVal(<<54032,47196>>),
    ntceInsttNm |-> StrVal(<<49436,50872,53945,48324,49884>>),
    presmptPrce |-> StrVal(<<48>>), bidClseDt |-> dl,
    source |-> <<51649,51217,53356,47204,47553,58,49436,50872,53945,48324,49884>>] :
     dl \in {StrVal(<<>>), RunDeadlineUnpadded}}

\* What evaluate_with_gpt gives for a record: nothing, "부적합" with -7.5,
\* -100, or the score "10" (a str).
RunAnswers ==
  {[answered |-> FALSE,
    reply |-> [result |-> <<48512,51201,54633>>, score |-> IntVal(0), reason |-> <<>>]],
   [answered |-> TRUE,
    reply |-> [result |-> <<48512,51201,54633>>, score |-> IntVal(-75), reason |-> <<>>]],
   [answered |-> TRUE,
    reply |-> [result |-> <<48512,51201,54633>>, score |-> IntVal(-1000), reason |-> <<>>]],
   [answered |-> TRUE,
    reply |-> [result |-> <<51201,54633>>, score |-> StrVal(<<49,48>>), reason |-> <<>>]]}

\* The run begins on 2026-01-01; at most MaxTicks midnights pass during it.
RunFirstDay == DayAfter(FirstDay)
RunLastDay == DaysAfter(RunFirstDay, MaxTicks)

InitRun ==
  /\ now = RunFirstDay
  /\ SITES_DB = Sites
  /\ WKMG_AGENCIES = BuildWkmgAgencies(Sites)
  /\ CONFIG \in Configs
  /\ item = NoItem
  /\ score = InitialResult
  /\ pc = "idle"
  /\ first = NoCall
  /\ g2b_items = <<>>
  /\ direct_items = <<>>
  /\ all_items = <<>>
  /\ unique = <<>>
  /\ stage = "start"
  /\ Idle

\* main, lines 1230-1233: items = fetch_all_bids(); main returns when there is
\* no listing.
FetchRun ==
  /\ stage = "start"
  /\ \E n \in 0..MaxRun : \E k \in 0..n :
       \E g \in [1..k -> RunKonepsItems] : \E d \in [1..(n - k) -> RunCrawledItems] :
         /\ g2b_items' = g
         /\ direct_items' = d
         /\ all_items' = g \o d
         /\ unique' = Dedup(g \o d)
         /\ stage' = IF Dedup(g \o d) = <<>> THEN "empty" ELSE "scoring"
  /\ UNCHANGED <<now, SITES_DB, WKMG_AGENCIES, CONFIG, item, score, pc, first>>
  /\ UNCHANGED <<run, koneps, spd>>

\* main, lines 1246-1274: one turn of the scoring loop, for the listing after
\* those scored so far.
ScoreNext ==
  /\ stage = "scoring"
  /\ LET it == unique[Len(scored_items) + 1]
         r == calculate_score(it, now, WKMG_AGENCIES)
     IN  IF r.raised
         THEN /\ stage' = "raised"
              /\ UNCHANGED scored_items
         ELSE /\ scored_items' = Append(scored_items, ScoredRecord(it, r.result))
              /\ stage' = IF Len(scored_items) + 1 = Len(unique) THEN "scored" ELSE "scoring"
  /\ UNCHANGED <<now, SITES_DB, WKMG_AGENCIES, CONFIG, item, score, pc, first>>
  /\ UNCHANGED <<g2b_items, direct_items, all_items, unique>>
  /\ UNCHANGED <<recommend, quick_win, candidates, koneps, spd>>

\* main, lines 1284-1285: the second stage over the whole list.
EvaluateRun ==
  /\ stage = "scored"
  /\ IF CONFIG.use_gpt
     THEN \E answers \in [1..Len(scored_items) -> RunAnswers] :
            LET r == EvaluateFrom(scored_items, answers, CONFIG, <<>>)
            IN  /\ scored_items' = r.items
                /\ stage' = IF r.raised THEN "crashed" ELSE "evaluated"
     ELSE /\ stage' = "evaluated"
          /\ UNCHANGED scored_items
  /\ UNCHANGED <<now, SITES_DB, WKMG_AGENCIES, CONFIG, item, score, pc, first>>
  /\ UNCHANGED <<g2b_items, direct_items, all_items, unique>>
  /\ UNCHANGED <<recommend, quick_win, candidates, koneps, spd>>

\* main, lines 1294-1320: the three lists, built with the date of that moment.
BuildLists ==
  /\ stage = "evaluated"
  /\ LET today_str == TodayStr(now)
         all_recommend == AllRecommend(scored_items, today_str)
     IN  /\ candidates' = Candidates(scored_items, today_str)
         /\ recommend' = Recommend(all_recommend)
         /\ quick_win' = QuickWin(all_recommend)
  /\ stage' = "listed"
  /\ UNCHANGED <<now, SITES_DB, WKMG_AGENCIES, CONFIG, item, score, pc, first>>
  /\ UNCHANGED <<g2b_items, direct_items, all_items, unique>>
  /\ UNCHANGED <<scored_items, koneps, spd>>

\* Midnight passes while the second stage waits for the service.
TickRun ==
  /\ stage = "scored"
  /\ DateLt(now, RunLastDay)
  /\ now' = DayAfter(now)
  /\ UNCHANGED <<SITES_DB, WKMG_AGENCIES, CONFIG, item, score, pc, first>>
  /\ UNCHANGED <<batch, run, koneps, spd>>

NextRun == FetchRun \/ ScoreNext \/ EvaluateRun \/ BuildLists \/ TickRun

SpecRun == InitRun /\ [][NextRun]_vars

(***************************************************************************)
(* download_g2b_files (spd_auto_fetch.py, lines 188-233): the attachment   *)
(* sources are tried one after the other.                                  *)
(***************************************************************************)

\* A variant that goes to the web page before the attachment APIs.
SourceOrder_web_first ==
  <<"servc", "thng", "cnstwk", "frgcpt", "etc", "web", "eorder", "innov_rfp">>

\* Lines 202, 215 and 227: api_try_order, the two attachment APIs, and the web
\* page ("web" stands for _try_download_from_g2b_web, which has no api_type).
SourceOrder ==
  <<"servc", "thng", "cnstwk", "frgcpt", "etc", "eorder", "innov_rfp", "web">>

\* A source announces at most MaxFiles attachments.
MaxFiles == 3

\* What one of the three helpers returns for a source: the files it could
\* download, by their number, in rising order (each helper catches every
\* exception and returns the list it has; lines 236-300, 303-368, 371-437).
\* The files of the web page carry the api_type "web_crawl".
RECURSIVE FilesFrom(_, _, _)
FilesFrom(src, got, n) ==
  IF n > MaxFiles THEN <<>>
  ELSE (IF n \in got
        THEN <<[api_type |-> IF src = "web" THEN "web_crawl" ELSE src, file_seq |-> n]>>
        ELSE <<>>)
       \o FilesFrom(src, got, n + 1)

Yields(src) == {FilesFrom(src, got, 1) : got \in SUBSET (1..MaxFiles)}

\* Line 190: config.get("service_key", os.environ.get("RFP_SERVICE_KEY", "")):
\* the environment is asked only when the config has no such key.
ServiceKey(config, environ) == IF config.has_key THEN config.service_key ELSE environ

\* The config with the key "K", with an empty key and without the key; the
\* environment with "E" and without the variable.
SpdConfigs ==
  {[has_key |-> TRUE, service_key |-> <<75>>],
   [has_key |-> TRUE, service_key |-> <<>>],
   [has_key |-> FALSE, service_key |-> <<>>]}

SpdEnvirons == {<<69>>, <<>>}

\* Lines 190-197: without a service key the function returns [] at once;
\* os.makedirs may raise.
StartDownload ==
  /\ call = "start"
  /\ \E config \in SpdConfigs : \E environ \in SpdEnvirons : \E made \in BOOLEAN :
       /\ service_key' = ServiceKey(config, environ)
       /\ call' = IF ServiceKey(config, environ) = <<>> THEN "returned"
                  ELSE IF made THEN "running" ELSE "raised"
  /\ UNCHANGED <<tried, downloaded>>
  /\ UNCHANGED <<now, SITES_DB, WKMG_AGENCIES, CONFIG, item, score, pc, first>>
  /\ UNCHANGED <<batch, run, koneps>>

\* Lines 204-233: the next source is tried; the function returns what it
\* yields if that is not empty, and [] after the last source.
TrySource ==
  /\ call = "running"
  /\ LET src == SourceOrder[Len(tried) + 1]
     IN  \E files \in Yields(src) :
           /\ tried' = Append(tried, [source |-> src, files |-> files])
           /\ downloaded' = files
           /\ call' = IF files # <<>> \/ Len(tried) + 1 = Len(SourceOrder)
                      THEN "returned" ELSE "running"
  /\ UNCHANGED service_key
  /\ UNCHANGED <<now, SITES_DB, WKMG_AGENCIES, CONFIG, item, score, pc, first>>
  /\ UNCHANGED <<batch, run, koneps>>

NextDownload == StartDownload \/ TrySource

SpecDownload == Init /\ [][NextDownload]_vars

(***************************************************************************)
(* fetch_koneps (lines 798-842): the pages of the API are requested one    *)
(* after the other.                                                        *)
(***************************************************************************)

\* CONFIG["max_pages"] (100 by default, line 73), the rows of a page and the
\* totalCount of the API, each bounded.
MaxPages == 3
MaxRows == 2
MaxTotal == 4

\* A variant that asks for the same page again.
NextPage_same(p) == p

\* Line 832: page += 1.
NextPage(p) == p + 1

\* The n listings of page p (line 823), tagged by line 827.
PageItems(p, n) == [r \in 1..n |-> [page |-> p, row |-> r, source |-> <<45208,46972,51109,53552>>]]

\* Lines 799-806: items = [], page = 1, total_count = 0, and the first test of
\* the loop condition.
StartKoneps ==
  /\ loop = "start"
  /\ koneps_items' = <<>>
  /\ page' = 1
  /\ total_count' = 0
  /\ requests' = 0
  /\ loop' = IF 1 <= MaxPages THEN "running" ELSE "exhausted"
  /\ UNCHANGED <<now, SITES_DB, WKMG_AGENCIES, CONFIG, item, score, pc, first>>
  /\ UNCHANGED <<batch, run, spd>>

\* Lines 814-839, an answer with status 200 that parses: tc is its totalCount,
\* n the number of its listings.
PageAnswered(tc, n) ==
  LET count == IF page = 1 THEN tc ELSE total_count
      items == koneps_items \o PageItems(page, n)
  IN  /\ total_count' = count
      /\ IF n = 0
         THEN /\ loop' = "empty_page"
              /\ UNCHANGED <<koneps_items, page>>
         ELSE /\ koneps_items' = items
              /\ IF Len(items) >= count
                 THEN /\ loop' = "complete"
                      /\ UNCHANGED page
                 ELSE /\ page' = NextPage(page)
                      /\ loop' = IF NextPage(page) <= MaxPages THEN "running" ELSE "exhausted"

\* Lines 806-839: one turn of the loop.  The request raises (a timeout, an
\* answer that is no JSON or not of the expected shape), or is answered with
\* another status than 200, or with a page.
RequestPage ==
  /\ loop = "running"
  /\ requests' = requests + 1
  /\ \/ /\ loop' = "exception"
        /\ UNCHANGED <<page, total_count, koneps_items>>
     \/ /\ loop' = "http_error"
        /\ UNCHANGED <<page, total_count, koneps_items>>
     \/ \E tc \in 0..MaxTotal : \E n \in 0..MaxRows : PageAnswered(tc, n)
  /\ UNCHANGED <<now, SITES_DB, WKMG_AGENCIES, CONFIG, item, score, pc, first>>
  /\ UNCHANGED <<batch, run, spd>>

NextKoneps == StartKoneps \/ RequestPage

\* Every request ends, with an answer or with an exception (timeout=30, line
\* 816), and nothing else holds the loop up.
SpecKoneps == Init /\ [][NextKoneps]_vars /\ WF_vars(NextKoneps)

(***************************************************************************)
(* The properties.                                                         *)
(***************************************************************************)

\* calculate_score has returned score for item / apply_gpt_evaluation has
\* returned with the record in score.
Returned == pc = "scored"
Adjusted == pc = "evaluated"

HasPrefix(p, s) == Len(s) >= Len(p) /\ SubSeq(s, 1, Len(p)) = p

\* The kinds of exclusion reason: "마감경과:", "배제:", "예산부적격:".
IsDeadlineReason(r) == r.set /\ HasPrefix(<<47560,44048,44221,44284,58>>, r.text)
IsKeywordReason(r) == r.set /\ HasPrefix(<<48176,51228,58>>, r.text)
IsBudgetReason(r) == r.set /\ HasPrefix(<<50696,49328,48512,51201,44201,58>>, r.text)
IsDomainReason(r) == r.set /\ r.text = <<50689,50669,48520,51068,52824>>

\* What the filters see of a listing.
TitleOf(it) == Strip(Text(it.bidNtceNm))
AgencyOf(it) == Strip(Text(it.ntceInsttNm))
\* A date as one number, for comparing dates.
Ymd(d) == d.y * 10000 + d.m * 100 + d.d
\* The deadline of the listing parses to a date before today.
DeadlineBefore(it, today) ==
  /\ DeadlineStr(it) # <<>>
  /\ StrpDate(DeadlineStr(it)).ok
  /\ Ymd(StrpDate(DeadlineStr(it))) < Ymd(today)
KeywordExcluded(it) == FirstExclusion(Normalize(TitleOf(it))) # 0
BudgetBelowFloor(it) == 0 < Budget(it) /\ Budget(it) < 30000000
NoDomain(it) == BestDomain(TitleOf(it), Normalize(TitleOf(it))).domain = 0

\* C1: on return from calculate_score, and still after apply_gpt_evaluation,
\* exactly one of "exclusion_reason is not None" and "is_relevant is True"
\* holds of the record: never both, never neither.
C1_ExcludedXorRelevant ==
  (Returned \/ Adjusted) => (score.exclusion_reason.set # score.is_relevant)

\* An adjusted record that the second stage brought down to total 0: it is still
\* relevant and still carries no exclusion reason.
C1_Witness ==
  /\ Adjusted
  /\ score.gpt_result.set
  /\ score.total = 0
  /\ score.is_relevant
  /\ ~score.exclusion_reason.set

\* C2: total lies in [0, 100] (0..1000 tenths) on return from calculate_score
\* and after apply_gpt_evaluation has added whatever adjustment the service sent.
C2_TotalInRange ==
  (Returned \/ Adjusted) => (0 <= score.total /\ score.total <= 1000)

\* A record adjusted by +60 whose total is held at 100.
C2_Witness ==
  /\ Adjusted
  /\ score.gpt_adjustment = IntVal(600)
  /\ score.total = 1000

\* The sum of the stored components of a result; the key ai_bonus exists on the
\* scored path only and adds nothing where it is absent.
ComponentSum(r) ==
  r.domain_score + r.industry_score + r.scale_score + r.competition_score + r.penalty
  + (IF r.has_ai_bonus THEN r.ai_bonus ELSE 0)

\* Both penalty layers of a listing, computed from its title and agency.
BothLayers(it) ==
  LET title == TitleOf(it)
      without == TitleWithoutAgency(title, AgencyOf(it))
      context == AnyIn(STRATEGIC_EXEMPTION_WORDS, without)
  IN  PenaltyFrom(1, title, Normalize(title), context)
      + Penalty2(title, without, AlreadyReduced(title, Normalize(title), context))

Limit(x, lo, hi) == IF x < lo THEN lo ELSE IF x > hi THEN hi ELSE x

\* C3: on return from calculate_score, total = clamp(domain_score +
\* industry_score + scale_score + competition_score + penalty + ai_bonus, 0, 100),
\* and the stored penalty of a scored record is the sum of both penalty layers.
C3_TotalIsClampedSum ==
  Returned =>
    /\ score.total = Limit(ComponentSum(score), 0, 1000)
    /\ score.is_relevant => score.has_ai_bonus /\ score.penalty = BothLayers(item)

\* A scored record whose components sum to less than 0, with deductions of both
\* layers, and whose total is 0.
C3_Witness ==
  /\ Returned
  /\ score.is_relevant
  /\ ComponentSum(score) < 0
  /\ score.penalty < -150
  /\ score.total = 0

\* The order S > A > B > C.
Rank(g) == IF g = "S" THEN 4 ELSE IF g = "A" THEN 3 ELSE IF g = "B" THEN 2
           ELSE IF g = "C" THEN 1 ELSE 0

\* The grade the thresholds give a total.
StepGrade(t) ==
  CHOOSE g \in {"S", "A", "B", "C"} :
    /\ g = "S" <=> t >= 800
    /\ g = "A" <=> (650 <= t /\ t < 800)
    /\ g = "B" <=> (550 <= t /\ t < 650)

\* Totals around every threshold and at both ends of the range.
GradeTotals == {0, 5, 545, 550, 555, 645, 650, 655, 795, 800, 805, 1000}

\* C4: a record that is not excluded has grade S for total >= 80, A for
\* 65 <= total < 80, B for 55 <= total < 65 and C below, on return from
\* calculate_score and after apply_gpt_evaluation; so against a record of any
\* other total the higher total never has the lower grade.
C4_GradeIsStepOfTotal ==
  (Returned \/ Adjusted) /\ ~score.exclusion_reason.set =>
    /\ score.grade = StepGrade(score.total)
    /\ \A t \in GradeTotals :
         /\ score.total >= t => Rank(score.grade) >= Rank(StepGrade(t))
         /\ t >= score.total => Rank(StepGrade(t)) >= Rank(score.grade)

\* A record graded A at 65 that the second stage moved to 57.5 and grade B.
C4_Witness ==
  /\ Adjusted
  /\ score.gpt_adjustment = IntVal(-75)
  /\ score.total = 575
  /\ score.grade = "B"

UnparsableBudget(it) == Truthy(it.presmptPrce) /\ ~IntOfFloat(it.presmptPrce).ok
UnparsableDeadline(it) ==
  /\ Truthy(it.bidClseDt)
  /\ ~(it.bidClseDt.t = "str" /\ StrpDate(DeadlineStr(it)).ok)

\* C6: for a listing with a str title and agency whose budget or deadline does
\* not parse, calculate_score never raises, and the record is excluded neither by
\* the budget filter (unparsable budget) nor by the deadline filter (unparsable
\* deadline).
C6_UnparsableNeverRaises ==
  /\ item.bidNtceNm.t = "str"
  /\ item.ntceInsttNm.t = "str"
  /\ UnparsableBudget(item) \/ UnparsableDeadline(item)
  => /\ pc # "raised"
     /\ Returned /\ UnparsableBudget(item) => ~IsBudgetReason(score.exclusion_reason)
     /\ Returned /\ UnparsableDeadline(item) => ~IsDeadlineReason(score.exclusion_reason)

\* C7: a deadline that parses to a date before today excludes the record with
\* the deadline reason naming that date; a deadline of today or later, an empty
\* one and one that does not parse never give a deadline reason.
C7_DeadlineFilter ==
  Returned =>
    IF DeadlineBefore(item, now)
    THEN score.exclusion_reason =
           [set |-> TRUE, text |-> <<47560,44048,44221,44284,58>> \o DeadlineStr(item)]
    ELSE ~IsDeadlineReason(score.exclusion_reason)

\* The listing closing on 2025-12-31, scored on 2026-01-01.
C7_Witness ==
  /\ Returned
  /\ DeadlineBefore(item, now)
  /\ DeadlineStr(item) = <<50,48,50,53,45,49,50,45,51,49>>
  /\ IsDeadlineReason(score.exclusion_reason)

\* C8: a record that passes the deadline and keyword filters has a budget
\* reason exactly when 0 < budget < MIN_BUDGET.
C8_BudgetFloor ==
  Returned /\ ~DeadlineBefore(item, now) /\ ~KeywordExcluded(item) =>
    (IsBudgetReason(score.exclusion_reason) <=> BudgetBelowFloor(item))

\* The budget "29999999.9", that is MIN_BUDGET - 1, rejected as "2999만원".
C8_Witness ==
  /\ Returned
  /\ Budget(item) = MIN_BUDGET - 1
  /\ score.exclusion_reason =
       [set |-> TRUE,
        text |-> <<50696,49328,48512,51201,44201,58,50,57,57,57,47564,50896>>]

\* A string with its whitespace removed and its letters folded to lower case.
Folded(s) == Lower(SelectSeq(s, LAMBDA c : ~IsSpace(c)))

\* C9: a record the deadline filter lets pass, whose title holds an entry of the
\* exclusion list once whitespace is removed and case is folded, is excluded
\* with a reason naming an exclusion keyword.
C9_KeywordFilterFoldsCase ==
  /\ Returned
  /\ ~DeadlineBefore(item, now)
  /\ \E i \in 1..Len(EXCLUSIONS) : IsSubstr(Folded(EXCLUSIONS[i]), Folded(Text(item.bidNtceNm)))
  => IsKeywordReason(score.exclusion_reason)

\* C10: the filters reject in the order deadline, exclusion keyword, budget
\* floor, domain match: the reason is that of the earliest filter that fails, and
\* the rejected call returns with nothing else of the result set.
C10_FirstFailingFilter ==
  Returned =>
    /\ DeadlineBefore(item, now) => IsDeadlineReason(score.exclusion_reason)
    /\ ~DeadlineBefore(item, now) /\ KeywordExcluded(item)
         => IsKeywordReason(score.exclusion_reason)
    /\ ~DeadlineBefore(item, now) /\ ~KeywordExcluded(item) /\ BudgetBelowFloor(item)
         => IsBudgetReason(score.exclusion_reason)
    /\ ~DeadlineBefore(item, now) /\ ~KeywordExcluded(item) /\ ~BudgetBelowFloor(item)
         /\ NoDomain(item)
         => IsDomainReason(score.exclusion_reason)
    /\ score.exclusion_reason.set
         => score = [InitialResult EXCEPT !.exclusion_reason = score.exclusion_reason]

\* A listing that fails all four filters and reports the deadline.
C10_Witness ==
  /\ Returned
  /\ DeadlineBefore(item, now)
  /\ KeywordExcluded(item)
  /\ BudgetBelowFloor(item)
  /\ NoDomain(item)
  /\ IsDeadlineReason(score.exclusion_reason)

\* The number of keywords of domain i that line 404 finds in the title of a
\* listing, and the score that number earns.
KeywordCount(i, it) ==
  Len(MatchedKeywords(CORE_DOMAINS[i], TitleOf(it), Normalize(TitleOf(it))))
DomainTier(i, it) ==
  IF KeywordCount(i, it) >= 3 THEN CORE_DOMAINS[i].max_score
  ELSE IF KeywordCount(i, it) = 2 THEN CORE_DOMAINS[i].partial
  ELSE CORE_DOMAINS[i].marginal
MatchingDomains(it) == {i \in 1..Len(CORE_DOMAINS) : KeywordCount(i, it) >= 1}
\* The first domain in table order among those of the highest score.
WinningDomain(it) ==
  CHOOSE i \in MatchingDomains(it) :
    \A j \in MatchingDomains(it) :
      \/ DomainTier(j, it) < DomainTier(i, it)
      \/ DomainTier(j, it) = DomainTier(i, it) /\ i <= j
PassesThreeFilters(it, today) ==
  ~DeadlineBefore(it, today) /\ ~KeywordExcluded(it) /\ ~BudgetBelowFloor(it)

PhrasesFound(it) ==
  {i \in 1..Len(PENALTY_KEYWORDS) :
     PenaltyHit(PENALTY_KEYWORDS[i], TitleOf(it), Normalize(TitleOf(it)))}
IsOperational(i) ==
  PENALTY_KEYWORDS[i].kw \in {OPERATION_PENALTY_KEYWORDS[j] : j \in 1..Len(OPERATION_PENALTY_KEYWORDS)}

\* The first penalty layer when the operational phrases found count -7 each,
\* once, and every other phrase found its table penalty (mitigate TRUE), or when
\* every phrase found counts its table penalty (mitigate FALSE).
RECURSIVE SumOfPhrases(_, _)
SumOfPhrases(found, mitigate) ==
  IF found = {} THEN 0
  ELSE LET i == CHOOSE x \in found : TRUE
       IN  (IF mitigate /\ IsOperational(i) THEN -70 ELSE PENALTY_KEYWORDS[i].p)
           + SumOfPhrases(found \ {i}, mitigate)

\* The second penalty layer of a listing.
SecondLayer(it, mitigate) ==
  Penalty2(TitleOf(it), TitleWithoutAgency(TitleOf(it), AgencyOf(it)),
           mitigate /\ \E i \in PhrasesFound(it) : IsOperational(i))

\* C12, as stated: in a scored record whose title holds an operational penalty
\* phrase and a strategic exemption word, the phrase adds -7 once and not its
\* table penalty.
C12_MitigatedOnce ==
  /\ Returned
  /\ score.is_relevant
  /\ \E i \in PhrasesFound(item) : IsOperational(i)
  /\ AnyIn(STRATEGIC_EXEMPTION_WORDS, TitleOf(item))
  => score.penalty = SumOfPhrases(PhrasesFound(item), TRUE) + SecondLayer(item, TRUE)

\* C12, amended: the exemption word counts only where it stands in the title
\* with the agency name removed; then every operational phrase found adds -7
\* once and not its table penalty, and otherwise its table penalty alone.
C12_MitigatedOnceOutsideAgency ==
  /\ Returned
  /\ score.is_relevant
  /\ \E i \in PhrasesFound(item) : IsOperational(i)
  => LET context == AnyIn(STRATEGIC_EXEMPTION_WORDS,
                          TitleWithoutAgency(TitleOf(item), AgencyOf(item)))
     IN  score.penalty = SumOfPhrases(PhrasesFound(item), context) + SecondLayer(item, context)

\* The title "운영 용역 운영 용역유통전략", with the phrase "운영용역"
\* twice and the exemption word "전략": penalty -7.
C12_Witness ==
  /\ Returned
  /\ score.is_relevant
  /\ TitleOf(item) = <<50868,50689,32,50857,50669,32,50868,50689,32,50857,50669,50976,53685,51204,47029>>
  /\ \E i \in PhrasesFound(item) : IsOperational(i)
  /\ AnyIn(STRATEGIC_EXEMPTION_WORDS, TitleWithoutAgency(TitleOf(item), AgencyOf(item)))
  /\ score.penalty = -70

(***************************************************************************)
(* Properties of fetch_all_bids, stated once it has returned.              *)
(***************************************************************************)
BatchReturned == stage = "returned"

Titled(it) == TitleText(it) # <<>>

\* The number of listings of s that carry fingerprint fp.
CountOf(s, fp) == Cardinality({k \in 1..Len(s) : FingerprintOf(s[k]) = fp})

\* Two titled listings whose titles are equal once whitespace is removed and
\* case is folded, of one agency.
SameButSpacingAndCase(a, b) ==
  /\ Titled(a) /\ Titled(b)
  /\ Folded(TitleText(a)) = Folded(TitleText(b))
  /\ a.ntceInsttNm = b.ntceInsttNm

\* C13: two listings of the batch whose titles differ only in whitespace and
\* letter case and whose agency is the same have the same fingerprint, and the
\* list fetch_all_bids returns holds exactly one listing of that fingerprint.
C13_SpacingAndCaseCollapse ==
  BatchReturned =>
    \A i, j \in 1..Len(all_items) :
      (i # j /\ SameButSpacingAndCase(all_items[i], all_items[j]))
        => /\ FingerprintOf(all_items[i]) = FingerprintOf(all_items[j])
           /\ CountOf(unique, FingerprintOf(all_items[i])) = 1

\* "AI 전략" from the API and "ai전략" crawled, of one agency, became one.
C13_Witness ==
  /\ BatchReturned
  /\ Len(g2b_items) = 1 /\ Len(direct_items) = 1
  /\ TitleText(all_items[1]) = <<65,73,32,51204,47029>>
  /\ TitleText(all_items[2]) = <<97,105,51204,47029>>
  /\ all_items[1].ntceInsttNm = all_items[2].ntceInsttNm
  /\ unique = <<all_items[1]>>

\* Two titled listings with one title and different agency values.
SameTitleOtherAgency(a, b) ==
  /\ Titled(a) /\ Titled(b)
  /\ a.bidNtceNm = b.bidNtceNm
  /\ a.ntceInsttNm # b.ntceInsttNm

\* Neither of the two listings was collapsed into the other: each fingerprint
\* has its own listing in the returned list.
BothKept(a, b) ==
  /\ FingerprintOf(a) # FingerprintOf(b)
  /\ CountOf(unique, FingerprintOf(a)) = 1
  /\ CountOf(unique, FingerprintOf(b)) = 1

\* C14 as stated: two listings with one title and any two different agency
\* values have different fingerprints and are not collapsed.
C14_OtherAgencyOtherFingerprint ==
  BatchReturned =>
    \A i, j \in 1..Len(all_items) :
      SameTitleOtherAgency(all_items[i], all_items[j])
        => BothKept(all_items[i], all_items[j])

\* C14: two listings with one title whose agency values still differ once
\* whitespace is removed and case is folded have different fingerprints and are
\* not collapsed; agency values that differ in whitespace or case only give one
\* fingerprint.
C14_OtherAgencyAfterFolding ==
  BatchReturned =>
    \A i, j \in 1..Len(all_items) :
      SameTitleOtherAgency(all_items[i], all_items[j])
        => IF Folded(all_items[i].ntceInsttNm.s) # Folded(all_items[j].ntceInsttNm.s)
           THEN BothKept(all_items[i], all_items[j])
           ELSE FingerprintOf(all_items[i]) = FingerprintOf(all_items[j])

\* "AI 전략" of "서울시" and "AI 전략" of "KIDP" are both returned.
C14_Witness ==
  /\ BatchReturned
  /\ Len(all_items) = 2
  /\ TitleText(all_items[1]) = <<65,73,32,51204,47029>>
  /\ TitleText(all_items[2]) = <<65,73,32,51204,47029>>
  /\ all_items[1].ntceInsttNm.s = <<49436,50872,49884>>
  /\ all_items[2].ntceInsttNm.s = <<75,73,68,80>>
  /\ unique = all_items

\* The listings of s at the positions idx, in the order of s.
Pick(s, idx) ==
  [n \in 1..Cardinality(idx) |->
     s[CHOOSE k \in idx : Cardinality({m \in idx : m <= k}) = n]]

\* The positions of all_items that hold the first listing of a fingerprint.
FirstPositions ==
  {k \in 1..Len(all_items) :
     \A m \in 1..(k - 1) : FingerprintOf(all_items[m]) # FingerprintOf(all_items[k])}

\* The same among the titled listings.
FirstTitledPositions ==
  {k \in 1..Len(all_items) :
     /\ Titled(all_items[k])
     /\ \A m \in 1..(k - 1) :
          Titled(all_items[m]) => FingerprintOf(all_items[m]) # FingerprintOf(all_items[k])}

NoFingerprintTwice(s) ==
  \A a, b \in 1..Len(s) : FingerprintOf(s[a]) = FingerprintOf(s[b]) => a = b

\* C15 as stated: the returned list holds, for each fingerprint of the batch,
\* exactly the first listing in arrival order (API before crawled), in arrival
\* order, and no fingerprint twice.
C15_FirstPerFingerprint ==
  BatchReturned =>
    /\ all_items = g2b_items \o direct_items
    /\ unique = Pick(all_items, FirstPositions)
    /\ NoFingerprintTwice(unique)

\* C15: the returned list holds, for each fingerprint of the titled listings
\* of the batch, exactly the first titled listing in arrival order (API before
\* crawled), in arrival order, and no fingerprint twice; a listing without a
\* title is not returned.
C15_FirstTitledPerFingerprint ==
  BatchReturned =>
    /\ all_items = g2b_items \o direct_items
    /\ unique = Pick(all_items, FirstTitledPositions)
    /\ NoFingerprintTwice(unique)
    /\ \A k \in 1..Len(unique) : Titled(unique[k])

\* A crawled listing repeats the fingerprint of an API listing; the API
\* listing and a later crawled one are returned, in that order.
C15_Witness ==
  /\ BatchReturned
  /\ Len(g2b_items) = 1 /\ Len(direct_items) = 2
  /\ Titled(all_items[1])
  /\ FingerprintOf(all_items[2]) = FingerprintOf(all_items[1])
  /\ Titled(all_items[3])
  /\ unique = <<all_items[1], all_items[3]>>

\* The orderings (permutations) of 1..n, and a list rearranged by one.
Orderings(n) == {f \in [1..n -> 1..n] : \A a, b \in 1..n : f[a] = f[b] => a = b}
Rearranged(s, f) == [i \in 1..Len(s) |-> s[f[i]]]

FingerprintsOf(s) == {FingerprintOf(s[k]) : k \in 1..Len(s)}

\* C16: the dedup of any rearrangement of the batch has the fingerprints and
\* the length of the returned list, and the dedup of the returned list is the
\* returned list.
C16_IdempotentOrderInsensitive ==
  BatchReturned =>
    /\ \A f \in Orderings(Len(all_items)) :
         /\ FingerprintsOf(Dedup(Rearranged(all_items, f))) = FingerprintsOf(unique)
         /\ Len(Dedup(Rearranged(all_items, f))) = Len(unique)
    /\ Dedup(unique) = unique

\* A batch of three listings with two fingerprints, of which a rearrangement
\* gives other representatives.
C16_Witness ==
  /\ BatchReturned
  /\ Len(all_items) = 3
  /\ Len(unique) = 2
  /\ \E f \in Orderings(3) : Dedup(Rearranged(all_items, f)) # unique

(***************************************************************************)
(* Properties of apply_gpt_evaluation.                                     *)
(***************************************************************************)

\* The step apply_gpt_evaluation takes on the record in hand.
SecondStageStep == pc = "scored" /\ pc' \in {"evaluated", "crashed"}

SecondStageOn == CONFIG.use_gpt /\ CONFIG.openai_api_key

\* Whatever the service would answer, a record it gives no result for is
\* returned as it was.
NoResultNoChange ==
  \A reply \in GptReplies : apply_gpt_evaluation(score, CONFIG, FALSE, reply).result = score

AdjustedRecord == Adjusted /\ score.gpt_result.set

\* max(0, min(100, x + a)) for the values a JSON number can take: an integer
\* number of tenths, an infinity (the sum is that infinity) or NaN (min keeps
\* 100).
WithAdjustment(x, a) ==
  IF a.t = "int" THEN Limit(x + a.n, 0, 1000)
  ELSE IF a.t = "inf" /\ a.n < 0 THEN 0
  ELSE 1000

\* C18 as stated: the total of an adjusted record is clamp(domain_score +
\* industry_score + scale_score + competition_score + penalty + ai_bonus +
\* gpt_adjustment, 0, 100), and its grade is the threshold grade of the total.
C18_TotalFromComponents ==
  AdjustedRecord =>
    /\ score.total = WithAdjustment(ComponentSum(score), score.gpt_adjustment)
    /\ score.grade = StepGrade(score.total)

\* C18: the total of an adjusted record is clamp(t + gpt_adjustment, 0, 100),
\* where t = clamp(domain_score + industry_score + scale_score +
\* competition_score + penalty + ai_bonus, 0, 100) is the total calculate_score
\* returned, and its grade is the threshold grade of the total.
C18_TotalFromClampedSum ==
  AdjustedRecord =>
    /\ score.total =
         WithAdjustment(Limit(ComponentSum(score), 0, 1000), score.gpt_adjustment)
    /\ score.grade = StepGrade(score.total)

\* A record whose components sum to more than 100, adjusted by -7.5: its total
\* is 92.5, not the sum less 7.5.
C18_Witness ==
  /\ AdjustedRecord
  /\ ComponentSum(score) > 1000
  /\ score.gpt_adjustment = IntVal(-75)
  /\ score.total = 925
  /\ score.grade = "S"

(***************************************************************************)
(* The number type of the scores.  A score is held in tenths of a point.   *)
(***************************************************************************)
IsInteger(x) == x % 10 = 0
IsHalfPoint(x) == x % 5 = 0

\* The component scores other than domain_score.
OtherComponents(r) ==
  {r.industry_score, r.scale_score, r.competition_score, r.penalty,
   IF r.has_ai_bonus THEN r.ai_bonus ELSE 0}

\* C19 as stated: total and every component score calculate_score returns is
\* an integer.
C19_ScoresAreIntegers ==
  Returned =>
    /\ IsInteger(score.total)
    /\ IsInteger(score.domain_score)
    /\ \A x \in OtherComponents(score) : IsInteger(x)

\* C19: industry_score, scale_score, competition_score, penalty and ai_bonus
\* are integers; domain_score is an integer or the partial-tier value 58.5, and
\* total is a multiple of 0.5 that is an integer whenever domain_score is.
C19_IntegersButPartialTier ==
  Returned =>
    /\ \A x \in OtherComponents(score) : IsInteger(x)
    /\ IsInteger(score.domain_score) \/ score.domain_score = 585
    /\ IsHalfPoint(score.total)
    /\ IsInteger(score.domain_score) => IsInteger(score.total)

\* A record matched by two keywords of a domain whose partial tier is 58.5:
\* domain_score 58.5 and a total that is no integer.
C19_Witness ==
  /\ Returned
  /\ score.is_relevant
  /\ score.domain_score = 585
  /\ ~IsInteger(score.total)
  /\ score.penalty < 0

\* C20: a record rejected by a filter has domain_score 0, every other component
\* score 0 (it carries no ai_bonus), total 0, matched_domain None, no matched
\* keywords and grade D; and a record with grade D is a rejected one, on return
\* from calculate_score and after apply_gpt_evaluation.
C20_RejectedIsZeroGradeD ==
  (Returned \/ Adjusted) =>
    /\ score.exclusion_reason.set =>
         /\ score.domain_score = 0
         /\ OtherComponents(score) = {0}
         /\ score.total = 0
         /\ ~score.matched_domain.set
         /\ score.matched_keywords = <<>>
         /\ score.grade = "D"
    /\ score.grade = "D" => score.exclusion_reason.set

\* A listing with keywords of a domain and a budget under the floor, rejected
\* by the budget filter, after apply_gpt_evaluation has passed over it.
C20_Witness ==
  /\ Adjusted
  /\ IsBudgetReason(score.exclusion_reason)
  /\ KeywordCount(1, item) >= 3
  /\ score.grade = "D"
  /\ score.total = 0

(***************************************************************************)
(* Properties of the two penalty layers.                                   *)
(***************************************************************************)

\* The title of a listing with the agency name removed.
Without(it) == TitleWithoutAgency(TitleOf(it), AgencyOf(it))

\* The first layer has mitigated an operational phrase of the listing.
LayerOneMitigated(it) ==
  /\ AnyIn(STRATEGIC_EXEMPTION_WORDS, Without(it))
  /\ \E i \in PhrasesFound(it) : IsOperational(i)

\* What the first layer deducts from a listing.
FirstLayer(it) ==
  SumOfPhrases(PhrasesFound(it), AnyIn(STRATEGIC_EXEMPTION_WORDS, Without(it)))

SecondLayerWithoutAgency(it) ==
  IF ~AnyIn(EXECUTION_WORDS, Without(it)) THEN 0
  ELSE IF ~AnyIn(STRATEGY_WORDS, Without(it)) THEN -150
  ELSE IF ~LayerOneMitigated(it) THEN -70
  ELSE 0

\* C22: in a scored record the second layer deducts 15 for an execution word
\* with no strategy word, 7 for an execution word with a strategy word and no
\* mitigation by the first layer, both read in the title without the agency
\* name, and nothing for an execution word that stands only inside the agency
\* name carried by the title.
C22_SecondLayerWithoutAgency ==
  Returned /\ score.is_relevant
    => score.penalty - FirstLayer(item) = SecondLayerWithoutAgency(item)

\* The title is the agency name "한국자산관리공사" and the keyword "판로":
\* the only execution word stands in the agency name, and 15 are deducted.
C22_Witness ==
  /\ Returned
  /\ score.is_relevant
  /\ AgencyOf(item) = <<54620,44397,51088,49328,44288,47532,44277,49324>>
  /\ AnyIn(EXECUTION_WORDS, TitleOf(item))
  /\ ~AnyIn(EXECUTION_WORDS, Without(item))
  /\ PhrasesFound(item) = {}
  /\ score.penalty = -150

(***************************************************************************)
(* Properties of the partner list and the competition score.               *)
(***************************************************************************)

\* The sites of sites_db.json flagged wkmg_partner.
PartnerSites == {SITES_DB[i] : i \in {k \in 1..Len(SITES_DB) : SITES_DB[k].wkmg_partner}}

\* The names a partner site stands for: its name, the text in its parenthesis,
\* the name before the parenthesis, and the aliases alias_map lists under it.
NamesOf(site) ==
  {site.name, BeforeParen(site.name)}
  \cup (IF ParenGroup(site.name).set THEN {ParenGroup(site.name).text} ELSE {})
  \cup UNION {{alias_map[i].aliases[j] : j \in 1..Len(alias_map[i].aliases)} :
                i \in {k \in 1..Len(alias_map) : alias_map[k].base = site.name}}

\* C23: every entry of WKMG_AGENCIES is a name of a site flagged wkmg_partner;
\* with no such site the list is empty and every scored record has
\* competition_score 5.
C23_PartnersFromSites ==
  /\ \A w \in WKMG_AGENCIES : \E site \in PartnerSites : w \in NamesOf(site)
  /\ PartnerSites = {} =>
       /\ WKMG_AGENCIES = {}
       /\ Returned /\ score.is_relevant => score.competition_score = 50

\* sites_db.json holds no partner, and a record of "한국관광공사" is scored as
\* a partner's: competition_score 7.
C23_Witness ==
  /\ PartnerSites = {}
  /\ Returned
  /\ score.is_relevant
  /\ AgencyOf(item) = <<54620,44397,44288,44305,44277,49324>>
  /\ score.wkmg_agency
  /\ score.competition_score = 70

\* Some entry of the partner list occurs in the agency of the listing.
PartnerNameInAgency(it) ==
  \E w \in WKMG_AGENCIES :
    \E k \in 0..(Len(AgencyOf(it)) - Len(w)) : SubSeq(AgencyOf(it), k + 1, k + Len(w)) = w

\* C24: a scored record has wkmg_agency True and competition_score 7 exactly
\* when some entry of the partner list is a substring of its agency, and
\* wkmg_agency False and competition_score 5 otherwise.
C24_CompetitionScore ==
  Returned /\ score.is_relevant =>
    IF PartnerNameInAgency(item)
    THEN score.wkmg_agency /\ score.competition_score = 70
    ELSE ~score.wkmg_agency /\ score.competition_score = 50

\* A record of "한국디자인진흥원(KIDP)", which holds the entries
\* "디자인진흥원" and "KIDP" and is itself no entry: competition_score 7.
C24_Witness ==
  /\ Returned
  /\ score.is_relevant
  /\ AgencyOf(item) \notin WKMG_AGENCIES
  /\ PartnerNameInAgency(item)
  /\ score.wkmg_agency
  /\ score.competition_score = 70

(***************************************************************************)
(* main: the order of the steps and the three lists.                       *)
(***************************************************************************)

\* The fingerprint of a record of scored_items.
RecordFingerprint(x) == make_fingerprint(Text(x.title), x.agency.s)

\* The k-th record of scored_items was made from listing it.
RecordOf(x, it) ==
  x.title = it.bidNtceNm /\ x.agency = it.ntceInsttNm /\ x.source = it.source

\* C25, as stated: the dedup pass comes after the scoring, so whenever a
\* listing has been removed as a duplicate, every listing of the batch has
\* been scored.
C25_DedupAfterScoring ==
  Len(unique) < Len(all_items) => Len(scored_items) = Len(all_items)

\* C25, amended: the dedup pass is part of fetch_all_bids and comes before the
\* scoring loop: the records scored are the listings that survived it, in
\* their order, no two of them with the same fingerprint; a listing removed
\* as a duplicate is never scored.
C25_DedupBeforeScoring ==
  /\ Len(scored_items) <= Len(unique)
  /\ Len(unique) <= Len(all_items)
  /\ \A k \in 1..Len(scored_items) : RecordOf(scored_items[k], unique[k])
  /\ \A j, k \in 1..Len(scored_items) :
       j # k => RecordFingerprint(scored_items[j]) # RecordFingerprint(scored_items[k])

\* Two listings with one fingerprint were fetched, one was removed, and the
\* scoring loop has ended with one record.
C25_Witness ==
  /\ stage = "scored"
  /\ Len(all_items) = 2
  /\ Len(unique) = 1
  /\ Len(scored_items) = 1

\* main has built its lists.
Listed == stage = "listed"

\* The records of a list, as a set.
Members(xs) == {xs[k] : k \in 1..Len(xs)}

\* The totals of a list never rise from one record to the next.
NonIncreasing(xs) == \A k \in 1..(Len(xs) - 1) : xs[k].score.total >= xs[k + 1].score.total

\* The k-th record is graded S, A or B and passes the expiry filter of main
\* (its deadline text is empty or not below today's date text).
Recommendable(k) ==
  /\ scored_items[k].score.grade \in {"S", "A", "B"}
  /\ is_not_expired(scored_items[k], TodayStr(now))

ExpiredByDate(x, today) ==
  /\ x.deadline # <<>>
  /\ StrpDate(x.deadline).ok
  /\ DateLt(StrpDate(x.deadline), today)

\* C27: when main has built its lists, no record of the priority, quick-win or
\* candidates list has a deadline date before today, and every record graded
\* S, A, B or C that has no deadline is in the candidates list.
C27_NoExpiredInLists ==
  Listed =>
    /\ \A x \in Members(recommend) \cup Members(quick_win) \cup Members(candidates) :
         ~ExpiredByDate(x, now)
    /\ \A x \in Members(scored_items) :
         x.deadline = <<>> /\ x.score.grade \in {"S", "A", "B", "C"} => x \in Members(candidates)

\* The half of C27 about records without a deadline.
C27_EmptyDeadlineKept ==
  Listed =>
    \A x \in Members(scored_items) :
      x.deadline = <<>> /\ x.score.grade \in {"S", "A", "B", "C"} => x \in Members(candidates)

\* The record with deadline "2026-1-1", scored on 2026-01-01, is in the
\* candidates list built on 2026-01-02.
C27_Witness ==
  /\ Listed
  /\ now = RunLastDay
  /\ \E x \in Members(candidates) : x.deadline = <<50,48,50,54,45,49,45,49>>

\* C28: a record that calculate_score returns without an exclusion reason has
\* scale_score 9 when 30,000,000 <= budget <= 500,000,000 and 7 otherwise; no
\* returned record has scale_score 8.
C28_ScaleScore ==
  Returned =>
    /\ score.scale_score # 80
    /\ ~score.exclusion_reason.set =>
         score.scale_score =
           IF 30000000 <= Budget(item) /\ Budget(item) <= 500000000 THEN 90 ELSE 70

\* The budget 500,000,000, the last of the upper band: scale_score 9.
C28_Witness ==
  /\ Returned
  /\ ~score.exclusion_reason.set
  /\ Budget(item) = 500000000
  /\ score.scale_score = 90

\* The budgets outside the band that are scored: negative, 0 and above
\* 500,000,000, each with scale_score 7.
C28_Outside ==
  /\ Returned
  /\ ~score.exclusion_reason.set
  /\ Budget(item) = 500000001
  /\ score.scale_score = 70

\* A budget of the 5-10 million band is rejected by the budget floor.
C28_Rejected ==
  /\ Returned
  /\ Budget(item) = 7000000
  /\ IsBudgetReason(score.exclusion_reason)

(***************************************************************************)
(* download_g2b_files and fetch_koneps.                                    *)
(***************************************************************************)

\* The order of the sources as the claim gives it.
ClaimedOrder ==
  <<"servc", "thng", "cnstwk", "frgcpt", "etc", "eorder", "innov_rfp", "web">>

\* C29: the sources tried are, in this order, servc, thng, cnstwk, frgcpt,
\* etc, eorder, innov_rfp and the web page, as far as the function got; every
\* source but the last one tried yielded nothing; the function returns the
\* files of the last source tried when that yielded any, and the empty list
\* only when all eight sources were tried and yielded nothing, or when there
\* is no service key and no source was tried.
C29_SourceOrder ==
  /\ Len(tried) <= Len(ClaimedOrder)
  /\ \A k \in 1..Len(tried) : tried[k].source = ClaimedOrder[k]
  /\ \A k \in 1..(Len(tried) - 1) : tried[k].files = <<>>
  /\ call = "running" => \A k \in 1..Len(tried) : tried[k].files = <<>>
  /\ service_key = <<>> => tried = <<>>
  /\ call = "returned" /\ downloaded # <<>> =>
       /\ tried # <<>>
       /\ downloaded = tried[Len(tried)].files
  /\ call = "returned" /\ downloaded = <<>> =>
       \/ service_key = <<>> /\ tried = <<>>
       \/ /\ Len(tried) = Len(ClaimedOrder)
          /\ \A k \in 1..Len(tried) : tried[k].files = <<>>

\* The bid-info APIs yielded nothing and the first attachment API two files,
\* which the function returned without trying innov_rfp or the web page.
C29_Witness ==
  /\ call = "returned"
  /\ Len(tried) = 6
  /\ tried[6].source = "eorder"
  /\ Len(downloaded) = 2
  /\ \A f \in Members(downloaded) : f.api_type = "eorder"

\* fetch_koneps has left its loop.
KonepsReturned == loop \in {"exhausted", "empty_page", "complete", "http_error", "exception"}

\* The listings collected are those of the pages 1 to n, page after page.
PagesCollected(n) ==
  /\ \A p \in 1..n : \E k \in 1..Len(koneps_items) : koneps_items[k].page = p
  /\ \A k \in 1..Len(koneps_items) : koneps_items[k].page \in 1..n
  /\ \A k \in 1..(Len(koneps_items) - 1) : koneps_items[k].page <= koneps_items[k + 1].page

\* C30: fetch_koneps leaves its loop in the end, after at most max_pages
\* requests; each request either advances the page by one or ends the loop;
\* and a request that fails (an exception or a status other than 200) ends
\* the loop with the listings of the earlier pages still in items.
C30_FetchKonepsTerminates ==
  /\ <>KonepsReturned
  /\ [](requests <= MaxPages)
  /\ [](loop = "running" => requests = page - 1 /\ PagesCollected(page - 1))
  /\ [][requests' = requests + 1 => (page' = page + 1 \/ KonepsReturned')]_vars
  /\ [][loop' \in {"http_error", "exception"} =>
         /\ koneps_items' = koneps_items
         /\ PagesCollected(page - 1)']_vars

\* The second request failed and the listings of the first page are returned.
C30_Witness ==
  /\ loop = "http_error"
  /\ requests = 2
  /\ Len(koneps_items) = 2
  /\ PagesCollected(1)
====
